---- MODULE Spec2Model ----
(***************************************************************************)
(* Extended History (background.js): the attention-segment tracker, the    *)
(* time ledger it writes, and the session tracker with its snapshot and    *)
(* archive, as a state machine over the service worker's event handlers.   *)
(*                                                                         *)
(* Time is in milliseconds.  A handler runs synchronously up to an await   *)
(* of chrome.storage.local or of an environment query, and other handlers  *)
(* and the clock may move while it waits there.  An await of an async      *)
(* function that returns without awaiting anything (commitSegment's early  *)
(* returns) only yields to the microtask queue, so the handler goes on     *)
(* before any other event is delivered.                                    *)
(*                                                                         *)
(* chrome.storage.local serves the calls of one extension in the order     *)
(* they were made: storeQ is that queue; a call takes effect, and the      *)
(* handler awaiting it continues, when it reaches the head.  Environment    *)
(* queries (tabs.get, tabs.query, windows.getAll) are answered by the       *)
(* browser in the order they were made too (envWait), each with the state   *)
(* of the browser at the moment of its answer; the two queues move          *)
(* independently of each other.  Local time is taken with offset 0, so      *)
(* local midnight is a multiple of DAY_MS.                                  *)
(***************************************************************************)
EXTENDS Integers, Sequences, FiniteSets, TLC

\* ── Program constants ──────────────────────────────────────────────────────
MAX_SESSIONS_DEFAULT == 4
MIN_SEGMENT_MS == 1000
MAX_SEGMENT_MS == 7200000
DAY_MS == 86400000
WINDOW_ID_NONE == -1

\* ── Bounds of the model ────────────────────────────────────────────────────
\* Handlers that may be suspended at an await at the same time.
MaxInFlight == 2
\* Clock advances of one run.
MaxAdvances == 3
\* External events (tab, focus, alarm, message, restart) of one run.
MaxEvents == 3

\* The same two for the runs that start from a segment at a boundary.
MaxCommitAdvances == 1
MaxCommitEvents == 2

\* ── URLs ───────────────────────────────────────────────────────────────────
\* A URL is its scheme and the labels of its host; NoUrl is the empty or
\* missing URL.
NoUrl == [scheme |-> "", host |-> <<>>]
UrlWwwA == [scheme |-> "https", host |-> <<"www", "a", "com">>]
UrlA == [scheme |-> "https", host |-> <<"a", "com">>]
UrlB == [scheme |-> "https", host |-> <<"b", "org">>]
UrlChrome == [scheme |-> "chrome", host |-> <<"newtab">>]

UNTRACKABLE == {"chrome", "chrome-extension", "about", "data", "javascript",
                "moz-extension", "edge", "brave"}

isTrackable(url) == url # NoUrl /\ url.scheme \notin UNTRACKABLE

\* hostname.replace(/^www\./, ''): the host without a leading "www" label.
domainOf(url) ==
    IF url = NoUrl THEN <<>>
    ELSE IF Len(url.host) > 0 /\ Head(url.host) = "www" THEN Tail(url.host)
    ELSE url.host

NoDomain == <<>>

Min(a, b) == IF a < b THEN a ELSE b
Max(a, b) == IF a > b THEN a ELSE b

\* todayKey(): the calendar day of instant n, as the number of its day.
todayKey(n) == n \div DAY_MS
\* new Date(); setHours(0, 0, 0, 0): the local midnight before instant n.
midnightOf(n) == n - (n % DAY_MS)

\* ── The browser (environment) ──────────────────────────────────────────────
Windows == {1, 2}
Tabs == {1, 2, 3}
windowOf(tab) == IF tab = 3 THEN 2 ELSE 1
SegUrls == {UrlWwwA, UrlB, UrlChrome}

VARIABLES
    now,            \* Date.now()
    budget,         \* clock advances and external events left (a bound)
    \* the browser
    tabUrl,         \* tab -> its URL, NoUrl when the tab is not open
    activeOf,       \* window -> its active tab, 0 when none
    focusedWin,     \* the focused browser window, WINDOW_ID_NONE when none
    boot,           \* lifecycle events the browser has yet to dispatch to the worker
    \* the service worker's memory: segment tracker (lines 36-39)
    activeTabId, activeDomain, segmentStart, windowFocused,
    \* the service worker's memory: session tracker (lines 184-186)
    sessionId, sessionTabs, sessionStart,
    \* chrome.storage.local and the calls queued to it
    store, storeQ,
    \* environment queries awaiting their answer
    envWait,
    \* history variables the properties read
    hist

trackerVars == <<activeTabId, activeDomain, segmentStart, windowFocused>>
sessionVars == <<sessionId, sessionTabs, sessionStart>>
browserVars == <<tabUrl, activeOf, focusedWin, boot>>
vars == <<now, budget, tabUrl, activeOf, focusedWin, boot, activeTabId,
          activeDomain, segmentStart, windowFocused, sessionId, sessionTabs,
          sessionStart, store, storeQ, envWait, hist>>

\* ── Time ledger (TIME_KEY): (domain, day) -> milliseconds ──────────────────
EmptyLedger == [p \in {} |-> 0]
ledgerGet(map, domain, day) ==
    IF <<domain, day>> \in DOMAIN map THEN map[<<domain, day>>] ELSE 0
\* map[domain][day] = (map[domain][day] || 0) + ms
ledgerAdd(map, domain, day, ms) ==
    [p \in DOMAIN map \cup {<<domain, day>>} |->
        IF p = <<domain, day>> THEN ledgerGet(map, domain, day) + ms
        ELSE map[p]]

\* ── Segment tracker: the synchronous steps ─────────────────────────────────
Tracker(tab, dom, seg, foc) ==
    [activeTabId |-> tab, activeDomain |-> dom, segmentStart |-> seg,
     windowFocused |-> foc]
Cur == Tracker(activeTabId, activeDomain, segmentStart, windowFocused)
SetTracker(t) ==
    /\ activeTabId' = t.activeTabId
    /\ activeDomain' = t.activeDomain
    /\ segmentStart' = t.segmentStart
    /\ windowFocused' = t.windowFocused

\* if (activeDomain && segmentStart && windowFocused)
segmentRunning(t) ==
    t.activeDomain # NoDomain /\ t.segmentStart # 0 /\ t.windowFocused

\* Two guards that are off by one, at the lower and at the upper boundary.
discardedOffByOneLow(ms) == ms <= MIN_SEGMENT_MS \/ ms > MAX_SEGMENT_MS
discardedOffByOneHigh(ms) == ms < MIN_SEGMENT_MS \/ ms >= MAX_SEGMENT_MS
\* if (ms < 1000 || ms > 7_200_000) return;
discarded(ms) == ms < MIN_SEGMENT_MS \/ ms > MAX_SEGMENT_MS

\* Math.min(ms, now - midnight)
capped(ms, n) == Min(ms, n - midnightOf(n))

\* The milliseconds commitSegment hands to addTime at instant n, 0 when it
\* returns without calling addTime.
commitAmount(t, n) ==
    IF ~segmentRunning(t) THEN 0
    ELSE LET ms == n - t.segmentStart IN
         IF discarded(ms) THEN 0
         ELSE IF capped(ms, n) < MIN_SEGMENT_MS THEN 0
         ELSE capped(ms, n)

\* A commitSegment that leaves the start marker set while it awaits the store.
keepStart(t) == t
\* segmentStart = null, on both paths, before anything is awaited.
clearStart(t) == [t EXCEPT !.segmentStart = 0]

\* A clearing of the active tab that clears nothing.
keepActive(t) == t
\* A startSegment that starts nothing.
startNothing(t, tabId, domain, n) == t
startSegment(t, tabId, domain, n) ==
    [t EXCEPT !.activeTabId = tabId, !.activeDomain = domain,
              !.segmentStart = n]

restartSegment(t, n) == [t EXCEPT !.segmentStart = n]

clearActive(t) == [t EXCEPT !.activeTabId = 0, !.activeDomain = NoDomain]

\* A clearing of the active domain that clears nothing.
keepDomain(t) == t
\* activeDomain = null  (onUpdated, the URL is not trackable)
clearDomain(t) == [t EXCEPT !.activeDomain = NoDomain]

\* ── History variables ──────────────────────────────────────────────────────
Domains == {domainOf(u) : u \in {v \in SegUrls : isTrackable(v)}}

NoCommit == [at |-> 0, start |-> 0, elapsed |-> 0, amount |-> 0,
             running |-> FALSE, sinceDay |-> 0, lost |-> FALSE]
NoWrite == [at |-> 0, domain |-> NoDomain, day |-> 0, ms |-> 0, read |-> 0,
            commitAt |-> 0, elapsed |-> 0]
NoFlush == [at |-> 0, ran |-> FALSE, elapsed |-> 0, commitAt |-> 0,
            read |-> 0, written |-> 0, wrote |-> FALSE, startAfter |-> 0,
            sameTab |-> TRUE, kept |-> TRUE, unchanged |-> TRUE]
NoPre == [valid |-> FALSE, touched |-> FALSE, sessionId |-> 0,
          sessionStart |-> 0, sessionTabs |-> <<>>]
NoReload == [done |-> FALSE, same |-> FALSE, tabs |-> 0]
NoArchived == [done |-> FALSE, ok |-> FALSE, tabs |-> 0]
NoFin == [done |-> FALSE, archive |-> <<>>, found |-> FALSE, noop |-> FALSE,
          noopLen |-> 0]
NoFail == [done |-> FALSE, op |-> "", ms |-> 0, before |-> EmptyLedger,
           after |-> EmptyLedger, handler |-> "", alive |-> FALSE,
           left |-> Tracker(0, NoDomain, 0, TRUE), rest |-> Tracker(0, NoDomain, 0, TRUE)]
NoQueryFail == [done |-> FALSE, q |-> "", before |-> <<>>, after |-> <<>>,
                saved |-> FALSE]
NoTimeData == [done |-> FALSE, days |-> 0, at |-> 0, ledger |-> EmptyLedger,
               topSites |-> <<>>, dailyMap |-> <<>>]
NoFocusLoss == [done |-> FALSE, running |-> FALSE, committed |-> FALSE,
                cleared |-> FALSE]
NoFocusGain == [done |-> FALSE, direct |-> FALSE, running |-> FALSE,
                committed |-> FALSE, answered |-> FALSE, found |-> FALSE,
                stillRunning |-> FALSE]
NoNamed == [kind |-> "", id |-> 0]
NoCurrent == [present |-> FALSE, id |-> 0, start |-> 0, tabs |-> <<>>]
NoSessionsResp == [done |-> FALSE, sessions |-> <<>>, current |-> NoCurrent,
                   maxSessions |-> 0, completed |-> <<>>,
                   inFlight |-> FALSE, records |-> <<>>]
NoSetMax == [done |-> FALSE, asked |-> 0, val |-> 0, stored |-> 0, read |-> <<>>,
             archive |-> <<>>]
InitHist ==
    [credited |-> [d \in Domains |-> 0],   \* ms the ledger was raised by, per domain
     focused |-> [d \in Domains |-> 0],    \* ms the domain truly had the focus
     coveredUntil |-> 0,                   \* end of the last segment handed to addTime
     overlap |-> FALSE,                    \* a segment handed to addTime began before that
     lastCommit |-> NoCommit,              \* the last commitSegment call
     lastWrite |-> NoWrite,                \* the last write of the ledger
     flushes |-> <<>>,                     \* the last two FLUSH_TIME requests
     flushResp |-> NoFlush,                \* the last FLUSH_TIME response
     pre |-> NoPre,                        \* the session memory a restart lost
     reload |-> NoReload,                  \* the last reload of that memory's snapshot
     archived |-> NoArchived,              \* the archive write that followed that reload
     fin |-> NoFin,                        \* the finishSession calls since the last beginSession
     completed |-> <<>>,                   \* ids of the sessions finishSession has archived
     beganUnfinished |-> FALSE,            \* a beginSession started over an unfinished session
     fail |-> NoFail,                      \* the last call of addTime that threw
     queryFail |-> NoQueryFail,            \* the last environment query that threw
     timeData |-> NoTimeData,              \* the last GET_TIME_DATA response
     lastDark |-> 0,                       \* end of the last clock step with no window focused
                                           \* (of those that passed with a start marker set)
     creditedDark |-> FALSE,               \* time of such a step was handed to addTime
     focusLoss |-> NoFocusLoss,            \* the last loss of the focus
     focusGain |-> NoFocusGain,            \* the last gain of the focus
     updates |-> 0,                        \* onUpdated events that carried no URL
     named |-> NoNamed,                    \* the tab or window the last event named
     from |-> <<>>,                        \* the store a startup in any order began with
     tickAt |-> 0,                         \* the instant of the last tick on schedule
     seen |-> {},                          \* tabs created or navigated in the session in flight
     unrecorded |-> {},                    \* those of them the last archive entry had no record of
     cut |-> FALSE,                        \* a SET_MAX_SESSIONS was lost before its trim
     sessionsResp |-> NoSessionsResp,      \* the last GET_SESSIONS response
     setMax |-> NoSetMax]                  \* the last SET_MAX_SESSIONS response

RECURSIVE SumSeq(_)
SumSeq(s) == IF s = <<>> THEN 0 ELSE Head(s) + SumSeq(Tail(s))
RECURSIVE SumOver(_, _)
SumOver(f, S) ==
    IF S = {} THEN 0
    ELSE LET x == CHOOSE y \in S : TRUE IN f[x] + SumOver(f, S \ {x})
\* All the milliseconds handed to addTime so far: those written to the ledger
\* and those of the addTime calls still awaiting the store.
Handed(h, q) ==
    SumOver(h.credited, Domains)
      + SumSeq([i \in 1..Len(q) |-> IF q[i].k.fn \in {"addTime", "addTimeSet"}
                                     THEN q[i].k.ms ELSE 0])

\* The domain shown by the active tab of the focused window; NoDomain if none.
trueDomain ==
    IF focusedWin = WINDOW_ID_NONE THEN NoDomain
    ELSE LET tab == activeOf[focusedWin] IN
         IF tab = 0 THEN NoDomain
         ELSE IF isTrackable(tabUrl[tab]) THEN domainOf(tabUrl[tab])
         ELSE NoDomain

histCommit(h, t0, n) ==
    LET amt == commitAmount(t0, n) IN
    [h EXCEPT
       !.lastCommit = [at |-> n, start |-> t0.segmentStart,
                       elapsed |-> IF segmentRunning(t0) THEN n - t0.segmentStart ELSE 0,
                       amount |-> amt, running |-> segmentRunning(t0),
                       sinceDay |-> n - midnightOf(n), lost |-> FALSE],
       !.overlap = @ \/ (amt > 0 /\ t0.segmentStart < h.coveredUntil),
       !.creditedDark = @ \/ (amt > 0 /\ n - amt < h.lastDark),
       !.coveredUntil = IF amt > 0 THEN n ELSE @]

\* ── Calls in flight ────────────────────────────────────────────────────────
\* A continuation: the handler `fn` suspended at an await, with its locals.
\* Beside them it carries the instant its event was delivered at (began),
\* whether no other handler was in flight then (alone), the events the run
\* had left (ev), and for finishSession's loadSessionState whether the memory
\* held no session and the store no snapshot when it was called (bare).
Cont(fn, after, tab, url) ==
    [fn |-> fn, after |-> after, tab |-> tab, url |-> url, alive |-> TRUE,
     domain |-> NoDomain, ms |-> 0, day |-> 0, read |-> 0, at |-> 0, el |-> 0,
     list |-> <<>>, second |-> FALSE, ok |-> FALSE, entry |-> 0, asked |-> 0,
     val |-> 0, seen |-> <<>>, began |-> 0, alone |-> FALSE, ev |-> 0,
     bare |-> FALSE]
\* The continuation of a handler whose event is delivered now.
Event(fn, after, tab, url) ==
    [Cont(fn, after, tab, url) EXCEPT
        !.began = now, !.alone = (storeQ = <<>> /\ envWait = <<>>),
        !.ev = budget.ev - 1]
StoreOp(op, key, val, k) == [op |-> op, key |-> key, val |-> val, k |-> k]
Query(q, arg, k) == [q |-> q, arg |-> arg, k |-> k]

InFlight ==
    Cardinality({i \in 1..Len(storeQ) : storeQ[i].k.alive}) + Len(envWait)
CanStart == InFlight < MaxInFlight /\ budget.ev > 0
Spend == budget' = [budget EXCEPT !.ev = @ - 1]

\* What each handler does once `await commitSegment()` has returned, at
\* instant n with the tracker as t: the tracker it leaves and the environment
\* query it goes on to await.
\* A FLUSH_TIME that puts the committed segment's start back, and one that
\* starts no segment after its commit.
flushRestartFromOldStart(t, n) == [t EXCEPT !.segmentStart = hist.lastCommit.start]
flushNoRestart(t, n) == t
\* segmentStart = Date.now()  (FLUSH_TIME, after the await)
flushRestart(t, n) == restartSegment(t, n)
\* segmentStart = Date.now()  (tick, after the await)
tickRestart(t, n) == restartSegment(t, n)
afterCommit(t, k, n) ==
    CASE k.after = "tick" -> [t |-> tickRestart(t, n), wait |-> <<>>]
      [] k.after = "flush" -> [t |-> flushRestart(t, n), wait |-> <<>>]
      [] k.after = "activated" ->
            [t |-> clearActive(t),
             wait |-> IF t.windowFocused
                      THEN <<Query("tabs.get", k.tab,
                                   [Cont("onActivated", "", k.tab, NoUrl) EXCEPT
                                      !.began = k.began, !.alone = k.alone, !.ev = k.ev])>>
                      ELSE <<>>]
      [] k.after = "navIdle" ->
            [t |-> clearDomain(t), wait |-> <<>>]
      [] k.after = "navStart" ->
            [t |-> startSegment(t, k.tab, domainOf(k.url), n), wait |-> <<>>]
      [] k.after = "removed" -> [t |-> clearActive(t), wait |-> <<>>]
      [] k.after = "focusLost" -> [t |-> clearActive(t), wait |-> <<>>]

\* The FLUSH_TIME response, recorded when handler k answers at instant n and
\* turns the tracker from t0 into t1: whether it found a segment running (ran), whether
\* it wrote the ledger and what, and, when it found none running, whether it
\* left tracker and ledger as they were.
histFlushResp(h, k, t0, t1, n, ran, wrote, written, unchanged) ==
    IF k.after # "flush" THEN h
    ELSE [h EXCEPT !.flushResp =
            [at |-> n, ran |-> ran, elapsed |-> k.el, commitAt |-> k.at,
             read |-> k.read, written |-> written, wrote |-> wrote,
             startAfter |-> t1.segmentStart,
             sameTab |-> t1.activeTabId = k.tab /\ t1.activeDomain = k.domain,
             kept |-> /\ t1.activeTabId = t0.activeTabId
                      /\ t1.activeDomain = t0.activeDomain
                      /\ t1.windowFocused = t0.windowFocused,
             unchanged |-> unchanged]]

\* `await commitSegment()` called with the tracker as t0, and the rest of the
\* handler k when commitSegment returns without awaiting the store.
Commit(h, t0, k) ==
    LET amt == commitAmount(t0, now)
        t1 == clearStart(t0)
        kk == [k EXCEPT !.domain = t0.activeDomain, !.ms = amt, !.at = now,
                        !.el = IF segmentRunning(t0) THEN now - t0.segmentStart ELSE 0]
    IN IF amt = 0 \/ t0.activeDomain = NoDomain
       THEN LET r == afterCommit(t1, k, now) IN
            /\ SetTracker(r.t)
            /\ envWait' = envWait \o r.wait
            /\ hist' = histFlushResp(histCommit(h, t0, now), kk, t0, r.t, now,
                                     TRUE, FALSE, 0, FALSE)
            /\ UNCHANGED <<store, storeQ>>
       ELSE /\ SetTracker(t1)
            /\ storeQ' = Append(storeQ, StoreOp("get", "eh_time", EmptyLedger, [kk EXCEPT !.fn = "addTime"]))
            /\ hist' = histCommit(h, t0, now)
            /\ UNCHANGED <<store, envWait>>

\* ── Initial state ──────────────────────────────────────────────────────────
NoSnapshot == [present |-> FALSE, sessionId |-> 0, sessionStart |-> 0,
               sessionTabs |-> <<>>]
InitStore == [eh_time |-> EmptyLedger, eh_sessions |-> <<>>,
              eh_cur_session |-> NoSnapshot, eh_max_sessions |-> 0,
              eh_migration_done |-> FALSE]
InitTracker == Tracker(0, NoDomain, 0, TRUE)
\* The run starts 1.5 s before a local midnight.
StartClock == DAY_MS - 1500
Deltas == {500, 1000}

InitMemory ==
    /\ activeTabId = InitTracker.activeTabId
    /\ activeDomain = InitTracker.activeDomain
    /\ segmentStart = InitTracker.segmentStart
    /\ windowFocused = InitTracker.windowFocused
    /\ sessionId = 0
    /\ sessionTabs = <<>>
    /\ sessionStart = 0

Init ==
    /\ now = StartClock
    /\ budget = [adv |-> MaxAdvances, ev |-> MaxEvents]
    /\ tabUrl = (1 :> UrlWwwA @@ 2 :> UrlB @@ 3 :> UrlChrome)
    /\ activeOf = (1 :> 1 @@ 2 :> 3)
    /\ focusedWin = 1
    /\ boot = {}
    /\ InitMemory
    /\ store = InitStore
    /\ storeQ = <<>>
    /\ envWait = <<>>
    /\ hist = InitHist

\* ── Segment tracker: the listeners ─────────────────────────────────────────
\* chrome.tabs.onActivated: the user switches to `tab` in its window, with the
\* history as h.
Activated(tab, h) ==
    /\ CanStart /\ Spend
    /\ tabUrl[tab] # NoUrl
    /\ activeOf[windowOf(tab)] # tab
    /\ activeOf' = [activeOf EXCEPT ![windowOf(tab)] = tab]
    /\ Commit(h, Cur, Event("onActivated", "activated", tab, NoUrl))
    /\ UNCHANGED <<now, boot, tabUrl, focusedWin, sessionVars>>

OnActivated(tab) == Activated(tab, hist)

\* chrome.tabs.onUpdated with info.url: `tab` navigates to `url`.
OnUpdated(tab, url) ==
    /\ CanStart /\ Spend
    /\ tabUrl[tab] # NoUrl
    /\ tabUrl[tab] # url
    /\ tabUrl' = [tabUrl EXCEPT ![tab] = url]
    /\ IF tab # activeTabId
       THEN UNCHANGED <<trackerVars, store, storeQ, envWait, hist>>
       ELSE IF ~isTrackable(url)
       THEN Commit(hist, Cur, Cont("onUpdated", "navIdle", tab, url))
       ELSE Commit(hist, Cur, Cont("onUpdated", "navStart", tab, url))
    /\ UNCHANGED <<now, boot, activeOf, focusedWin, sessionVars>>

\* chrome.tabs.onRemoved: `tab` is closed; its window keeps another tab.
OnRemoved(tab) ==
    /\ CanStart /\ Spend
    /\ tabUrl[tab] # NoUrl
    /\ \E other \in Tabs \ {tab} :
          windowOf(other) = windowOf(tab) /\ tabUrl[other] # NoUrl
    /\ tabUrl' = [tabUrl EXCEPT ![tab] = NoUrl]
    /\ activeOf' = [w \in Windows |-> IF activeOf[w] = tab THEN 0 ELSE activeOf[w]]
    /\ IF tab # activeTabId
       THEN UNCHANGED <<trackerVars, store, storeQ, envWait, hist>>
       ELSE Commit(hist, Cur, Cont("onRemoved", "removed", tab, NoUrl))
    /\ UNCHANGED <<now, boot, focusedWin, sessionVars>>

\* The focus is lost with the tracker as t0; commitSegment is called with it
\* as t1, and the step leaves it as t2: whether a segment was running, and
\* whether the milliseconds commitSegment hands to addTime are those the
\* segment had accrued within the guards.
histFocusLoss(h, t0, t1, t2) ==
    [h EXCEPT !.focusLoss =
        [done |-> TRUE, running |-> segmentRunning(t0),
         committed |-> commitAmount(t1, now) = commitAmount(t0, now),
         cleared |-> /\ ~t2.windowFocused
                     /\ t2.activeTabId = 0 /\ t2.activeDomain = NoDomain]]

\* chrome.windows.onFocusChanged(WINDOW_ID_NONE): the user leaves the browser.
OnFocusLost ==
    /\ CanStart /\ Spend
    /\ focusedWin # WINDOW_ID_NONE
    /\ focusedWin' = WINDOW_ID_NONE
    /\ Commit(histFocusLoss(hist, Cur, [Cur EXCEPT !.windowFocused = FALSE],
                             Tracker(activeTabId', activeDomain', segmentStart',
                                     windowFocused')),
              [Cur EXCEPT !.windowFocused = FALSE],
              Cont("onFocusChanged", "focusLost", 0, NoUrl))
    /\ UNCHANGED <<now, boot, tabUrl, activeOf, sessionVars>>

\* A window gets the focus with the tracker as t0, and the listener leaves
\* the store's queue as q: whether the focus came from another window and a
\* segment was running, and whether the milliseconds the listener hands to
\* addTime are those the segment had accrued within the guards.
histFocusGain(h, t0, q) ==
    [h EXCEPT !.focusGain =
        [done |-> TRUE, direct |-> focusedWin # WINDOW_ID_NONE,
         running |-> segmentRunning(t0),
         committed |-> Handed(h, q) - Handed(h, storeQ) = commitAmount(t0, now),
         answered |-> FALSE, found |-> FALSE, stillRunning |-> FALSE]]
\* The listener's query is answered and the listener leaves the tracker as t.
histFocusAnswer(h, k, found, t) ==
    IF k.fn # "onFocusChanged" THEN h
    ELSE [h EXCEPT !.focusGain.answered = TRUE, !.focusGain.found = found,
                   !.focusGain.stillRunning = segmentRunning(t)]

\* chrome.windows.onFocusChanged(wid): window `wid` gets the focus, with the
\* history as h.
FocusGained(wid, h) ==
    /\ CanStart /\ Spend
    /\ focusedWin # wid
    /\ focusedWin' = wid
    /\ SetTracker([Cur EXCEPT !.windowFocused = TRUE])
    /\ envWait' = Append(envWait, Query("tabs.query", wid, Cont("onFocusChanged", "", 0, NoUrl)))
    /\ UNCHANGED <<store, storeQ>>
    /\ hist' = histFocusGain(h, Cur, storeQ')
    /\ UNCHANGED <<now, boot, tabUrl, activeOf, sessionVars>>

OnFocusGained(wid) == FocusGained(wid, hist)

\* The onAlarm listener, up to its first await, with the history as h.
Alarm(h) ==
    IF segmentRunning(Cur)
    THEN Commit(h, Cur, Cont("onAlarm", "tick", 0, NoUrl))
    ELSE IF segmentStart = 0
    THEN /\ envWait' = Append(envWait, Query("windows.getAll", 0, Cont("resumeActiveTab", "", 0, NoUrl)))
         /\ hist' = h
         /\ UNCHANGED <<trackerVars, store, storeQ>>
    ELSE /\ hist' = h
         /\ UNCHANGED <<trackerVars, store, storeQ, envWait>>

\* chrome.alarms.onAlarm('eh_tick')
OnAlarm ==
    /\ CanStart /\ Spend
    /\ Alarm(hist)
    /\ UNCHANGED <<now, browserVars, sessionVars>>

\* handle({type: 'FLUSH_TIME'})
FlushTime ==
    LET req == [at |-> now, seg |-> segmentStart,
                elapsed |-> IF segmentRunning(Cur) THEN now - segmentStart ELSE 0,
                added |-> commitAmount(Cur, now),
                before |-> Handed(hist, storeQ)]
        h == [hist EXCEPT !.flushes = IF Len(@) < 2 THEN Append(@, req)
                                      ELSE <<@[2], req>>]
    IN /\ CanStart /\ Spend
       /\ IF segmentRunning(Cur)
          THEN Commit(h, Cur, Cont("handle", "flush", activeTabId, NoUrl))
          ELSE /\ UNCHANGED <<trackerVars, store, storeQ, envWait>>
               /\ hist' = histFlushResp(h, Cont("handle", "flush", activeTabId, NoUrl),
                                        Cur, Cur, now, FALSE, FALSE, 0,
                                        /\ activeTabId' = activeTabId
                                        /\ activeDomain' = activeDomain
                                        /\ segmentStart' = segmentStart
                                        /\ windowFocused' = windowFocused
                                        /\ store'.eh_time = store.eh_time)
       /\ UNCHANGED <<now, browserVars, sessionVars>>

\* addTime, after `await chrome.storage.local.get(TIME_KEY)`.
AddTimeRead ==
    /\ storeQ # <<>>
    /\ Head(storeQ).k.fn = "addTime"
    /\ LET k == Head(storeQ).k
           day == todayKey(now)
           map == ledgerAdd(store.eh_time, k.domain, day, k.ms)
       IN storeQ' = IF k.alive
                    THEN Append(Tail(storeQ),
                                StoreOp("set", "eh_time", map,
                                        [k EXCEPT !.fn = "addTimeSet", !.day = day,
                                                  !.read = ledgerGet(store.eh_time, k.domain, day)]))
                    ELSE Tail(storeQ)
    /\ UNCHANGED <<now, budget, browserVars, trackerVars, sessionVars, store, envWait, hist>>

\* addTime, after `await chrome.storage.local.set({[TIME_KEY]: map})`, and the
\* rest of the handler that awaited commitSegment.
AddTimeWrite ==
    /\ storeQ # <<>>
    /\ Head(storeQ).k.fn = "addTimeSet"
    /\ LET k == Head(storeQ).k
           r == afterCommit(Cur, k, now)
           h == [hist EXCEPT
                   !.lastWrite = [at |-> now, domain |-> k.domain, day |-> k.day,
                                  ms |-> k.ms, read |-> k.read, commitAt |-> k.at,
                                  elapsed |-> k.el],
                   !.credited[k.domain] = @ + k.ms]
       IN /\ store' = [store EXCEPT !.eh_time = Head(storeQ).val]
          /\ storeQ' = Tail(storeQ)
          /\ IF k.alive
             THEN /\ SetTracker(r.t)
                  /\ envWait' = envWait \o r.wait
                  /\ hist' = histFlushResp(h, k, Cur, r.t, now, TRUE, TRUE,
                                           ledgerGet(Head(storeQ).val, k.domain, k.day),
                                           FALSE)
             ELSE /\ hist' = h
                  /\ UNCHANGED <<trackerVars, envWait>>
    /\ UNCHANGED <<now, budget, browserVars, sessionVars>>

\* chrome.tabs.get(tabId) answers the onActivated listener.
TabsGetAnswer ==
    /\ envWait # <<>>
    /\ Head(envWait).q = "tabs.get"
    /\ LET tab == Head(envWait).arg IN
       IF tabUrl[tab] # NoUrl /\ isTrackable(tabUrl[tab])
       THEN SetTracker(startSegment(Cur, tab, domainOf(tabUrl[tab]), now))
       ELSE UNCHANGED trackerVars
    /\ envWait' = Tail(envWait)
    /\ UNCHANGED <<now, budget, browserVars, sessionVars, store, storeQ, hist>>

\* chrome.tabs.query({active: true, windowId}) answers onFocusChanged or
\* resumeActiveTab.
TabsQueryAnswer ==
    /\ envWait # <<>>
    /\ Head(envWait).q = "tabs.query"
    /\ LET tab == activeOf[Head(envWait).arg] IN
       IF tab # 0 /\ isTrackable(tabUrl[tab])
       THEN /\ SetTracker(startSegment(Cur, tab, domainOf(tabUrl[tab]), now))
            /\ hist' = histFocusAnswer(hist, Head(envWait).k, TRUE,
                                       startSegment(Cur, tab, domainOf(tabUrl[tab]), now))
       ELSE /\ UNCHANGED trackerVars
            /\ hist' = histFocusAnswer(hist, Head(envWait).k, FALSE, Cur)
    /\ envWait' = Tail(envWait)
    /\ UNCHANGED <<now, budget, browserVars, sessionVars, store, storeQ>>

\* chrome.windows.getAll() answers resumeActiveTab.
WindowsGetAllAnswer ==
    /\ envWait # <<>>
    /\ Head(envWait).q = "windows.getAll"
    /\ IF focusedWin = WINDOW_ID_NONE
       THEN /\ SetTracker([Cur EXCEPT !.windowFocused = FALSE])
            /\ envWait' = Tail(envWait)
       ELSE /\ SetTracker([Cur EXCEPT !.windowFocused = TRUE])
            /\ envWait' = Append(Tail(envWait),
                                 Query("tabs.query", focusedWin, Head(envWait).k))
    /\ UNCHANGED <<now, budget, browserVars, sessionVars, store, storeQ, hist>>

\* A beginSession is between its first assignment and the end of its save.
BeginInFlight ==
    \/ \E i \in 1..Len(envWait) : envWait[i].q = "tabs.queryAll"
    \/ \E i \in 1..Len(storeQ) :
          /\ storeQ[i].k.alive
          /\ storeQ[i].k.fn = "saveSessionState"
          /\ storeQ[i].k.after \in {"onStartup", "onInstalled"}

\* The worker's memory and its suspended handlers are lost; the store, and the
\* calls already made to it, are not.
ResetWorker ==
    /\ SetTracker(InitTracker)
    /\ sessionId' = 0 /\ sessionTabs' = <<>> /\ sessionStart' = 0
    /\ envWait' = <<>>
    /\ storeQ' = [i \in 1..Len(storeQ) |-> [storeQ[i] EXCEPT !.k.alive = FALSE]]
    /\ hist' = [hist EXCEPT
                  !.lastCommit.lost =
                      @ \/ \E i \in 1..Len(storeQ) :
                              storeQ[i].k.fn = "addTime" /\ storeQ[i].k.at = hist.lastCommit.at,
                  !.cut = @ \/ \E i \in 1..Len(storeQ) :
                                   /\ storeQ[i].k.alive
                                   /\ storeQ[i].k.fn \in {"SET_MAX_SESSIONS.set",
                                                          "SET_MAX_SESSIONS.getSessions"},
                  !.pre = IF sessionId = 0 THEN @
                          ELSE IF BeginInFlight THEN NoPre
                          ELSE [valid |-> TRUE, touched |-> FALSE, sessionId |-> sessionId,
                                sessionStart |-> sessionStart, sessionTabs |-> sessionTabs]]
    /\ UNCHANGED <<now, tabUrl, activeOf, focusedWin, store>>

\* The service worker is stopped while idle and woken again by an event.
Restart ==
    /\ budget.ev > 0 /\ Spend
    /\ ResetWorker
    /\ boot' = {}

\* The clock moves on.
Advance(d) ==
    /\ budget.adv > 0
    /\ budget' = [budget EXCEPT !.adv = @ - 1]
    /\ now' = now + d
    /\ hist' = [hist EXCEPT
                  !.focused = IF trueDomain \in Domains
                              THEN [@ EXCEPT ![trueDomain] = @ + d] ELSE @,
                  !.lastDark = IF focusedWin = WINDOW_ID_NONE /\ segmentStart # 0
                               THEN now + d ELSE @]
    /\ UNCHANGED <<browserVars, trackerVars, sessionVars, store, storeQ, envWait>>

Next ==
    \/ \E tab \in Tabs : OnActivated(tab)
    \/ \E tab \in Tabs, url \in SegUrls : OnUpdated(tab, url)
    \/ \E tab \in Tabs : OnRemoved(tab)
    \/ OnFocusLost
    \/ \E wid \in Windows : OnFocusGained(wid)
    \/ OnAlarm
    \/ FlushTime
    \/ AddTimeRead
    \/ AddTimeWrite
    \/ TabsGetAnswer
    \/ TabsQueryAnswer
    \/ WindowsGetAllAnswer
    \/ Restart
    \/ \E d \in Deltas : Advance(d)

Spec == Init /\ [][Next]_vars

\* ── Prompt answers ─────────────────────────────────────────────────────────
\* The runs of Spec in which the store and the browser answer at once: the
\* clock moves only while no call is in flight.
Quiet == storeQ = <<>> /\ envWait = <<>>
PromptNext ==
    \/ \E d \in Deltas : Quiet /\ Advance(d)
    \/ \E tab \in Tabs : OnActivated(tab)
    \/ \E tab \in Tabs, url \in SegUrls : OnUpdated(tab, url)
    \/ \E tab \in Tabs : OnRemoved(tab)
    \/ OnFocusLost
    \/ \E wid \in Windows : OnFocusGained(wid)
    \/ OnAlarm
    \/ FlushTime
    \/ AddTimeRead
    \/ AddTimeWrite
    \/ TabsGetAnswer
    \/ TabsQueryAnswer
    \/ WindowsGetAllAnswer
    \/ Restart

PromptSpec == Init /\ [][PromptNext]_vars

\* ── The store throws ───────────────────────────────────────────────────────
\* chrome.storage.local.get or .set rejects inside addTime.  addTime catches
\* nothing and neither does commitSegment: the exception ends the handler
\* that awaited commitSegment, and the rest of that handler does not run.
\* A failed call that writes its value all the same.
failedCallWrites(st, val) == [st EXCEPT !.eh_time = val]
\* The store after a call that threw.
failedCall(st, val) == st

\* Beside the ledger before and after the call are kept the handler that
\* awaited commitSegment, the tracker it leaves, and the tracker the rest of
\* the handler would have left.
histFail(h, o, st) ==
    [h EXCEPT !.fail = [done |-> TRUE, op |-> o.op, ms |-> o.k.ms,
                        before |-> store.eh_time, after |-> st.eh_time,
                        handler |-> o.k.after, alive |-> o.k.alive,
                        left |-> Cur, rest |-> afterCommit(Cur, o.k, now).t]]

\* addTime: `await chrome.storage.local.get(TIME_KEY)` throws.
AddTimeReadFails ==
    /\ storeQ # <<>>
    /\ Head(storeQ).k.fn = "addTime"
    /\ store' = failedCall(store, Head(storeQ).val)
    /\ storeQ' = Tail(storeQ)
    /\ hist' = histFail(hist, Head(storeQ), store')
    /\ UNCHANGED <<now, budget, browserVars, trackerVars, sessionVars, envWait>>

\* addTime: `await chrome.storage.local.set({[TIME_KEY]: map})` throws.
AddTimeWriteFails ==
    /\ storeQ # <<>>
    /\ Head(storeQ).k.fn = "addTimeSet"
    /\ store' = failedCall(store, Head(storeQ).val)
    /\ storeQ' = Tail(storeQ)
    /\ hist' = histFail(hist, Head(storeQ), store')
    /\ UNCHANGED <<now, budget, browserVars, trackerVars, sessionVars, envWait>>

FailNext ==
    \/ Next
    \/ AddTimeReadFails
    \/ AddTimeWriteFails

\* ── Ticks on schedule ──────────────────────────────────────────────────────
\* chrome.alarms.create('eh_tick', {periodInMinutes: 0.5})
TICK_MS == 30000
MaxTickAdvances == 3
MaxTickEvents == 3
TickDeltas == {10000, 20000, 30000}
\* The runs in which the alarm fires every TICK_MS, at the instants that are
\* multiples of TICK_MS, and the store and the browser answer at once: the
\* clock stops at every such instant and moves on when the listener has run
\* and no call is in flight.
TickDue == now % TICK_MS = 0 /\ hist.tickAt # now

ScheduledAlarm ==
    /\ TickDue
    /\ InFlight < MaxInFlight
    /\ Alarm([hist EXCEPT !.tickAt = now])
    /\ UNCHANGED <<now, budget, browserVars, sessionVars>>

TickAdvance(d) ==
    /\ Quiet /\ ~TickDue
    /\ (now % TICK_MS) + d <= TICK_MS
    /\ Advance(d)

TickInit ==
    /\ now = DAY_MS + 43200000
    /\ budget = [adv |-> MaxTickAdvances, ev |-> MaxTickEvents]
    /\ tabUrl = (1 :> UrlWwwA @@ 2 :> UrlB @@ 3 :> UrlChrome)
    /\ activeOf = (1 :> 1 @@ 2 :> 3)
    /\ focusedWin = 1
    /\ boot = {}
    /\ InitMemory
    /\ store = InitStore
    /\ storeQ = <<>>
    /\ envWait = <<>>
    /\ hist = InitHist

TickNext ==
    \/ ScheduledAlarm
    \/ \E d \in TickDeltas : TickAdvance(d)
    \/ \E tab \in Tabs : OnActivated(tab)
    \/ \E tab \in Tabs, url \in SegUrls : OnUpdated(tab, url)
    \/ \E tab \in Tabs : OnRemoved(tab)
    \/ OnFocusLost
    \/ \E wid \in Windows : OnFocusGained(wid)
    \/ FlushTime
    \/ AddTimeRead
    \/ AddTimeWrite
    \/ TabsGetAnswer
    \/ TabsQueryAnswer
    \/ WindowsGetAllAnswer
    \/ Restart

TickSpec == TickInit /\ [][TickNext]_vars

\* ── Self-heal ──────────────────────────────────────────────────────────────
\* The runs with no tab and no focus event: the browser keeps the windows,
\* tabs and focus it starts with, the worker is restarted now and then, and
\* the alarm keeps firing.  The timer fires again and again, and the browser
\* and the store answer every call made to them: weak fairness of the tick
\* and of the answers.
MaxHealAdvances == 2
MaxHealEvents == 2

HealTick ==
    /\ InFlight < MaxInFlight
    /\ Alarm(hist)
    /\ UNCHANGED <<now, budget, browserVars, sessionVars>>

HealInit ==
    /\ now = StartClock
    /\ budget = [adv |-> MaxHealAdvances, ev |-> MaxHealEvents]
    /\ tabUrl = (1 :> UrlWwwA @@ 2 :> UrlB @@ 3 :> UrlChrome)
    /\ activeOf \in {(1 :> 1 @@ 2 :> 3), (1 :> 2 @@ 2 :> 3)}
    /\ focusedWin \in Windows \cup {WINDOW_ID_NONE}
    /\ boot = {}
    /\ InitMemory
    /\ store = InitStore
    /\ storeQ = <<>>
    /\ envWait = <<>>
    /\ hist = InitHist

HealNext ==
    \/ Restart
    \/ HealTick
    \/ WindowsGetAllAnswer
    \/ TabsQueryAnswer
    \/ AddTimeRead
    \/ AddTimeWrite
    \/ \E d \in Deltas : Advance(d)

HealSpec ==
    /\ HealInit /\ [][HealNext]_vars
    /\ WF_vars(HealTick)
    /\ WF_vars(WindowsGetAllAnswer)
    /\ WF_vars(TabsQueryAnswer)
    /\ WF_vars(AddTimeRead)
    /\ WF_vars(AddTimeWrite)

\* ── A segment at a boundary ────────────────────────────────────────────────
\* The tracker has a segment running on tab 1, begun `elapsed` ms before the
\* clock's instant; the clock is at noon, at 00:01:00.000, at 00:00:01.000 or
\* at 00:00:00.999 of a day.
CommitClocks == {DAY_MS + 43200000, DAY_MS + 60000, DAY_MS + 1000, DAY_MS + 999}
BoundaryElapsed == {0, 999, 1000, 1001, 120000, 7199999, 7200000, 7200001}

CommitInit ==
    /\ now \in CommitClocks
    /\ budget = [adv |-> MaxCommitAdvances, ev |-> MaxCommitEvents]
    /\ tabUrl = (1 :> UrlWwwA @@ 2 :> UrlB @@ 3 :> UrlChrome)
    /\ activeOf = (1 :> 1 @@ 2 :> 3)
    /\ focusedWin = 1
    /\ boot = {}
    /\ activeTabId = 1
    /\ activeDomain = domainOf(UrlWwwA)
    /\ \E e \in BoundaryElapsed : segmentStart = now - e
    /\ windowFocused = TRUE
    /\ sessionId = 0
    /\ sessionTabs = <<>>
    /\ sessionStart = 0
    /\ store = InitStore
    /\ storeQ = <<>>
    /\ envWait = <<>>
    /\ hist = InitHist

CommitSpec == CommitInit /\ [][Next]_vars
\* The same runs, with a store that may throw.
FailSpec == CommitInit /\ [][FailNext]_vars

\* ── Overlapping commits ────────────────────────────────────────────────────
\* A segment has been running on tab 1 for two minutes, at noon; the run is
\* long enough for a second segment to be committed while the first commit's
\* addTime still awaits the store.
MaxOverlapAdvances == 1
MaxOverlapEvents == 3

OverlapInit ==
    /\ now = DAY_MS + 43200000
    /\ budget = [adv |-> MaxOverlapAdvances, ev |-> MaxOverlapEvents]
    /\ tabUrl = (1 :> UrlWwwA @@ 2 :> UrlB @@ 3 :> UrlChrome)
    /\ activeOf = (1 :> 1 @@ 2 :> 3)
    /\ focusedWin = 1
    /\ boot = {}
    /\ activeTabId = 1
    /\ activeDomain = domainOf(UrlWwwA)
    /\ segmentStart = now - 120000
    /\ windowFocused = TRUE
    /\ sessionId = 0
    /\ sessionTabs = <<>>
    /\ sessionStart = 0
    /\ store = InitStore
    /\ storeQ = <<>>
    /\ envWait = <<>>
    /\ hist = InitHist

OverlapSpec == OverlapInit /\ [][Next]_vars

\* ── Updates without a URL ──────────────────────────────────────────────────
\* chrome.tabs.onUpdated whose info has no url (the tab's status, title or
\* favicon changed): the listener returns at `tabId !== activeTabId` or at
\* `!info.url`, before anything is read or written.
OnUpdatedNoUrl(tab) ==
    /\ CanStart /\ Spend
    /\ tabUrl[tab] # NoUrl
    /\ hist' = [hist EXCEPT !.updates = @ + 1]
    /\ UNCHANGED <<now, browserVars, trackerVars, sessionVars, store, storeQ, envWait>>

\* The runs that start from the segment running at noon, with such updates
\* among the events.
UpdateNext ==
    \/ Next
    \/ \E tab \in Tabs : OnUpdatedNoUrl(tab)

UpdateSpec == OverlapInit /\ [][UpdateNext]_vars

\* ── Lookups answered in any order ──────────────────────────────────────────
\* The browser answers the lookups of two handlers in the order it likes: the
\* second of the queries in flight overtakes the first.
Overtake ==
    /\ Len(envWait) >= 2
    /\ envWait' = <<envWait[2], envWait[1]>> \o SubSeq(envWait, 3, Len(envWait))
    /\ UNCHANGED <<now, budget, browserVars, trackerVars, sessionVars, store, storeQ, hist>>

\* The runs that start from the segment running at noon and consist of tab
\* activations and focus gains alone, each noting the tab or window it names.
OrderNext ==
    \/ \E tab \in Tabs : Activated(tab, [hist EXCEPT !.named = [kind |-> "tab", id |-> tab]])
    \/ \E wid \in Windows :
          FocusGained(wid, [hist EXCEPT !.named = [kind |-> "window", id |-> wid]])
    \/ AddTimeRead
    \/ AddTimeWrite
    \/ TabsGetAnswer
    \/ TabsQueryAnswer
    \/ Overtake
    \/ \E d \in Deltas : Advance(d)

OrderSpec == OverlapInit /\ [][OrderNext]_vars

\* ── Session tracker ────────────────────────────────────────────────────────
\* A session id `s_<Date.now()>` is the instant it was made at; 0 is null.
\* sessionTabs maps tab ids to records; a record's closed is 0 for null. Tabs
\* have empty titles.  The legacy keys migrateStorage looks for are absent.
\* The two trackers share no memory and write different keys of the store:
\* Spec follows the segment tracker through one run of the browser, SessSpec
\* the session tracker through starts of the browser, taking of each tab event
\* the session tracker's listener.
MaxSessAdvances == 1
MaxSessEvents == 3
\* The URLs of the session tracker's tab events, and its clock steps.
SessUrls == {UrlB, UrlChrome}
SessDeltas == {1000}

\* A record that takes the present instant for its opened time.
recordOpenedNow(url, opened, closed) ==
    [url |-> url, title |-> "", domain |-> domainOf(url), opened |-> now,
     closed |-> closed]
TabRecord(url, opened, closed) ==
    [url |-> url, title |-> "", domain |-> domainOf(url), opened |-> opened,
     closed |-> closed]
tabPut(tabs, id, rec) ==
    [t \in DOMAIN tabs \cup {id} |-> IF t = id THEN rec ELSE tabs[t]]

\* Object.values(sessionTabs): the records in ascending order of tab id.
RECURSIVE valuesOf(_)
valuesOf(tabs) ==
    IF DOMAIN tabs = {} THEN <<>>
    ELSE LET m == CHOOSE x \in DOMAIN tabs : \A y \in DOMAIN tabs : x <= y
         IN <<tabs[m]>> \o valuesOf([t \in DOMAIN tabs \ {m} |-> tabs[t]])
\* .filter(t => t.url)
withUrl(recs) == SelectSeq(recs, LAMBDA r : r.url # NoUrl)
\* A count of the records, equal URLs counted each time.
countAll(recs) == Len(recs)
\* new Set(tabs.map(t => t.url)).size
uniqCount(recs) == Cardinality({recs[i].url : i \in 1..Len(recs)})

\* finishSession: the list it hands to saveSessions at instant n.
finishList(list, id, start, tabs, n) ==
    LET recs == withUrl(valuesOf(tabs)) IN
    IF recs # <<>>
    THEN Append(list, [id |-> id, start |-> start, end |-> n,
                       tabCount |-> uniqCount(recs), tabs |-> recs])
    ELSE list
\* A cut that keeps the oldest `max` entries.
oldestN(list, max) ==
    IF Len(list) > max THEN SubSeq(list, 1, max) ELSE list
\* if (list.length > max) list = list.slice(-max)
lastN(list, max) ==
    IF Len(list) > max THEN SubSeq(list, Len(list) - max + 1, Len(list)) ELSE list
\* r.eh_max_sessions || MAX_SESSIONS_DEFAULT
maxSessionsOf(st) ==
    IF st.eh_max_sessions = 0 THEN MAX_SESSIONS_DEFAULT ELSE st.eh_max_sessions

\* A snapshot that forgets the tab records.
snapshotWithoutTabs(id, start, tabs) ==
    [present |-> TRUE, sessionId |-> id, sessionStart |-> start, sessionTabs |-> <<>>]
\* { eh_cur_session: { sessionId, sessionStart, sessionTabs } }
snapshotOf(id, start, tabs) ==
    [present |-> TRUE, sessionId |-> id, sessionStart |-> start, sessionTabs |-> tabs]
\* A clearSessionState that removes the ledger with the snapshot.
removeSnapshotAndLedger(st) ==
    [st EXCEPT !.eh_cur_session = NoSnapshot, !.eh_time = EmptyLedger]
\* A clearSessionState that leaves the snapshot in the store.
keepSnapshot(st) == st
\* chrome.storage.local.remove('eh_cur_session')
removeSnapshot(st) == [st EXCEPT !.eh_cur_session = NoSnapshot]

SetSession(id, start, tabs) ==
    /\ sessionId' = id
    /\ sessionStart' = start
    /\ sessionTabs' = tabs

\* saveSessionState() called with the memory as (id, start, tabs) by handler k:
\* the calls it adds to the store's queue.
saveSessionState(id, start, tabs, k) ==
    IF id = 0 THEN <<>>
    ELSE <<StoreOp("set", "eh_cur_session", snapshotOf(id, start, tabs),
                   [k EXCEPT !.fn = "saveSessionState"])>>

\* A session listener has changed sessionTabs.
histTouch(h) == [h EXCEPT !.pre.touched = TRUE]
\* `tab` is created at or navigates to `url` while a session is in flight: its
\* snapshot is in the store and no handler is at work on it.
histSeen(h, tab, url) ==
    IF /\ isTrackable(url) /\ store.eh_cur_session.present
       /\ storeQ = <<>> /\ envWait = <<>> /\ boot = {}
    THEN [h EXCEPT !.seen = @ \cup {tab}]
    ELSE h

\* chrome.tabs.onCreated (session tracker): `tab` opens showing `url`.
SessionOnCreated(tab, url) ==
    /\ CanStart /\ Spend
    /\ tabUrl[tab] = NoUrl
    /\ tabUrl' = [tabUrl EXCEPT ![tab] = url]
    /\ IF sessionId = 0 \/ ~isTrackable(url)
       THEN /\ hist' = histSeen(hist, tab, url)
            /\ UNCHANGED <<sessionVars, storeQ>>
       ELSE LET tabs == tabPut(sessionTabs, tab, TabRecord(url, now, 0)) IN
            /\ SetSession(sessionId, sessionStart, tabs)
            /\ storeQ' = storeQ \o saveSessionState(sessionId, sessionStart, tabs,
                                                    Cont("", "onCreated", tab, url))
            /\ hist' = histTouch(histSeen(hist, tab, url))
    /\ UNCHANGED <<now, activeOf, focusedWin, boot, trackerVars, store, envWait>>

\* chrome.tabs.onUpdated with info.url (session tracker): `tab` navigates.
SessionOnUpdated(tab, url) ==
    /\ CanStart /\ Spend
    /\ tabUrl[tab] # NoUrl
    /\ tabUrl[tab] # url
    /\ tabUrl' = [tabUrl EXCEPT ![tab] = url]
    /\ IF sessionId = 0 \/ ~isTrackable(url)
       THEN /\ hist' = histSeen(hist, tab, url)
            /\ UNCHANGED <<sessionVars, storeQ>>
       ELSE LET opened == IF tab \in DOMAIN sessionTabs THEN sessionTabs[tab].opened
                          ELSE now
                tabs == tabPut(sessionTabs, tab, TabRecord(url, opened, 0))
            IN /\ SetSession(sessionId, sessionStart, tabs)
               /\ storeQ' = storeQ \o saveSessionState(sessionId, sessionStart, tabs,
                                                       Cont("", "onUpdated", tab, url))
               /\ hist' = histTouch(histSeen(hist, tab, url))
    /\ UNCHANGED <<now, activeOf, focusedWin, boot, trackerVars, store, envWait>>

\* chrome.tabs.onRemoved (session tracker): `tab` is closed.
SessionOnRemoved(tab) ==
    /\ CanStart /\ Spend
    /\ tabUrl[tab] # NoUrl
    /\ tabUrl' = [tabUrl EXCEPT ![tab] = NoUrl]
    /\ activeOf' = [w \in Windows |-> IF activeOf[w] = tab THEN 0 ELSE activeOf[w]]
    /\ IF tab \notin DOMAIN sessionTabs
       THEN UNCHANGED <<sessionVars, storeQ, hist>>
       ELSE LET tabs == [sessionTabs EXCEPT ![tab].closed = now] IN
            /\ SetSession(sessionId, sessionStart, tabs)
            /\ storeQ' = storeQ \o saveSessionState(sessionId, sessionStart, tabs,
                                                    Cont("", "onRemoved", tab, NoUrl))
            /\ hist' = histTouch(hist)
    /\ UNCHANGED <<now, focusedWin, boot, trackerVars, store, envWait>>

\* beginSession() is called while the store is st: whether st holds the
\* snapshot of a session with tab records, which no finishSession has archived
\* and removed.
histBegin(h, st) ==
    [h EXCEPT !.beganUnfinished =
        @ \/ (/\ st.eh_cur_session.present
              /\ withUrl(valuesOf(st.eh_cur_session.sessionTabs)) # <<>>)]

\* beginSession(), up to its `await chrome.tabs.query({})`.
BeginSession(k, h) ==
    /\ SetSession(now, now, <<>>)
    /\ envWait' = Append(envWait, Query("tabs.queryAll", 0,
                                        [k EXCEPT !.fn = "beginSession", !.ev = budget.ev]))
    /\ hist' = [h EXCEPT !.pre = NoPre, !.fin.done = FALSE, !.seen = {}]

\* finishSession(), up to its first await: the call it makes to the store.
finishSessionCall(k) ==
    LET kk == [k EXCEPT !.second = hist.fin.done] IN
    IF sessionId = 0
    THEN StoreOp("get", "eh_cur_session", 0,
                 [kk EXCEPT !.fn = "loadSessionState",
                            !.bare = ~store.eh_cur_session.present])
    ELSE StoreOp("get", "eh_sessions", 0, [kk EXCEPT !.fn = "getSessions"])

\* The handler k goes on after `await migrateStorage()`.
AfterMigrate(k, q) ==
    IF k.after = "onStartup"
    THEN /\ storeQ' = Append(q, finishSessionCall(k))
         /\ hist' = [hist EXCEPT !.fin.found = @ \/ (hist.fin.done /\ sessionId # 0)]
         /\ UNCHANGED <<sessionVars, envWait>>
    ELSE /\ storeQ' = q
         /\ BeginSession(k, histBegin(hist, store))

HeadIs(fn) == storeQ # <<>> /\ Head(storeQ).k.fn = fn
\* A call whose handler was lost with the worker: a get has no effect.
DropDead ==
    /\ storeQ # <<>>
    /\ ~Head(storeQ).k.alive
    /\ Head(storeQ).op = "get"
    /\ Head(storeQ).k.fn # "addTime"
    /\ storeQ' = Tail(storeQ)
    /\ UNCHANGED <<now, budget, browserVars, trackerVars, sessionVars, store, envWait, hist>>

\* migrateStorage, after `await chrome.storage.local.get('eh_migration_done')`.
MigrateStorageGet ==
    /\ HeadIs("migrateStorage") /\ Head(storeQ).k.alive
    /\ Head(storeQ).key = "eh_migration_done" /\ Head(storeQ).op = "get"
    /\ IF store.eh_migration_done
       THEN AfterMigrate(Head(storeQ).k, Tail(storeQ))
       ELSE /\ storeQ' = Append(Tail(storeQ), StoreOp("get", "legacy", 0, Head(storeQ).k))
            /\ UNCHANGED <<sessionVars, envWait, hist>>
    /\ UNCHANGED <<now, budget, browserVars, trackerVars, store>>

\* migrateStorage, after the get of the legacy keys: none is there to copy.
MigrateStorageLegacy ==
    /\ HeadIs("migrateStorage") /\ Head(storeQ).k.alive
    /\ Head(storeQ).key = "legacy"
    /\ storeQ' = Append(Tail(storeQ),
                        StoreOp("set", "eh_migration_done", TRUE, Head(storeQ).k))
    /\ UNCHANGED <<now, budget, browserVars, trackerVars, sessionVars, store, envWait, hist>>

\* migrateStorage, after `await chrome.storage.local.set({eh_migration_done: true})`.
MigrateStorageSet ==
    /\ HeadIs("migrateStorage")
    /\ Head(storeQ).key = "eh_migration_done" /\ Head(storeQ).op = "set"
    /\ store' = [store EXCEPT !.eh_migration_done = TRUE]
    /\ IF Head(storeQ).k.alive
       THEN AfterMigrate(Head(storeQ).k, Tail(storeQ))
       ELSE /\ storeQ' = Tail(storeQ)
            /\ UNCHANGED <<sessionVars, envWait, hist>>
    /\ UNCHANGED <<now, budget, browserVars, trackerVars>>

\* loadSessionState, after its get, and finishSession up to its next await.
LoadSessionStateGet ==
    /\ HeadIs("loadSessionState") /\ Head(storeQ).k.alive
    /\ LET k == [Head(storeQ).k EXCEPT !.bare = FALSE]
           snap == store.eh_cur_session
           id == IF snap.present THEN snap.sessionId ELSE sessionId
           start == IF snap.present THEN snap.sessionStart ELSE sessionStart
           tabs == IF snap.present THEN snap.sessionTabs ELSE sessionTabs
           h == [hist EXCEPT
                   !.fin.found = @ \/ (k.second /\ snap.present),
                   !.reload = IF hist.pre.valid
                              THEN [done |-> TRUE,
                                    same |-> /\ snap.present
                                             /\ id = hist.pre.sessionId
                                             /\ start = hist.pre.sessionStart
                                             /\ tabs = hist.pre.sessionTabs,
                                    tabs |-> Cardinality(DOMAIN tabs)]
                              ELSE @]
       IN IF id = 0
          THEN /\ storeQ' = Tail(storeQ)
               /\ BeginSession(k, [histBegin(h, store) EXCEPT !.fin.noop = @ \/ k.second,
                                            !.fin.noopLen = IF k.second
                                                            THEN Len(hist.fin.archive)
                                                            ELSE @])
          ELSE /\ SetSession(id, start, tabs)
               /\ storeQ' = Append(Tail(storeQ),
                                   StoreOp("get", "eh_sessions", 0, [k EXCEPT !.fn = "getSessions"]))
               /\ hist' = h
               /\ UNCHANGED envWait
    /\ UNCHANGED <<now, budget, browserVars, trackerVars, store>>

\* finishSession, after `await getSessions()`, up to saveSessions' get.
GetSessionsGet ==
    /\ HeadIs("getSessions") /\ Head(storeQ).k.alive
    /\ LET k == Head(storeQ).k
           list == finishList(store.eh_sessions, sessionId, sessionStart, sessionTabs, now)
           fromPre == hist.reload.done /\ hist.pre.valid /\ ~hist.pre.touched
           ok == /\ fromPre
                 /\ list = finishList(store.eh_sessions, hist.pre.sessionId,
                                      hist.pre.sessionStart, hist.pre.sessionTabs, now)
       IN storeQ' = Append(Tail(storeQ),
                           StoreOp("get", "eh_max_sessions", 0,
                                   [k EXCEPT !.fn = "getMaxSessions", !.list = list,
                                             !.ok = ok, !.read = IF fromPre THEN 1 ELSE 0,
                                             !.entry = IF list = store.eh_sessions THEN 0
                                                       ELSE sessionId]))
    /\ hist' = [hist EXCEPT !.unrecorded =
                  hist.seen \ {t \in DOMAIN sessionTabs : sessionTabs[t].url # NoUrl}]
    /\ UNCHANGED <<now, budget, browserVars, trackerVars, sessionVars, store, envWait>>

\* saveSessions, after `await getMaxSessions()`.
GetMaxSessionsGet ==
    /\ HeadIs("getMaxSessions") /\ Head(storeQ).k.alive
    /\ LET k == Head(storeQ).k
           list == lastN(k.list, maxSessionsOf(store))
       IN storeQ' = Append(Tail(storeQ),
                           StoreOp("set", "eh_sessions", list,
                                   [k EXCEPT !.fn = "saveSessions", !.list = list]))
    /\ UNCHANGED <<now, budget, browserVars, trackerVars, sessionVars, store, envWait, hist>>

\* saveSessions' set has landed; finishSession clears the memory and calls
\* clearSessionState.
SaveSessionsSet ==
    /\ HeadIs("saveSessions")
    /\ LET k == Head(storeQ).k
           h == [hist EXCEPT
                   !.completed = IF k.entry = 0 THEN @ ELSE Append(@, k.entry),
                   !.archived = IF k.read = 1
                                THEN [done |-> TRUE,
                                      ok |-> k.ok /\ Head(storeQ).val = k.list,
                                      tabs |-> IF k.list = <<>> THEN 0
                                               ELSE Len(k.list[Len(k.list)].tabs)]
                                ELSE @]
       IN /\ store' = [store EXCEPT !.eh_sessions = Head(storeQ).val]
          /\ IF k.alive
             THEN /\ SetSession(0, 0, <<>>)
                  /\ storeQ' = Append(Tail(storeQ),
                                      StoreOp("remove", "eh_cur_session", 0,
                                              [k EXCEPT !.fn = "clearSessionState"]))
                  /\ hist' = [h EXCEPT !.pre = NoPre,
                                       !.fin = IF k.second THEN @
                                               ELSE [@ EXCEPT !.done = TRUE,
                                                              !.archive = Head(storeQ).val]]
             ELSE /\ storeQ' = Tail(storeQ)
                  /\ hist' = h
                  /\ UNCHANGED sessionVars
    /\ UNCHANGED <<now, budget, browserVars, trackerVars, envWait>>

\* clearSessionState's remove has landed; onStartup goes on to beginSession.
ClearSessionStateRemove ==
    /\ HeadIs("clearSessionState")
    /\ store' = removeSnapshot(store)
    /\ storeQ' = Tail(storeQ)
    /\ IF Head(storeQ).k.alive
       THEN BeginSession(Head(storeQ).k, histBegin(hist, removeSnapshot(store)))
       ELSE UNCHANGED <<sessionVars, envWait, hist>>
    /\ UNCHANGED <<now, budget, browserVars, trackerVars>>

\* chrome.tabs.query({}) answers beginSession, which records the open
\* trackable tabs and saves the snapshot.
TabsQueryAllAnswer ==
    /\ envWait # <<>>
    /\ Head(envWait).q = "tabs.queryAll"
    /\ LET k == Head(envWait).k
           open == {t \in Tabs : tabUrl[t] # NoUrl /\ isTrackable(tabUrl[t])}
           tabs == [t \in DOMAIN sessionTabs \cup open |->
                       IF t \in open THEN TabRecord(tabUrl[t], now, 0)
                       ELSE sessionTabs[t]]
           save == saveSessionState(sessionId, sessionStart, tabs, k)
       IN /\ SetSession(sessionId, sessionStart, tabs)
          /\ storeQ' = storeQ \o save
          /\ envWait' = IF save = <<>>
                        THEN Append(Tail(envWait),
                                    Query("windows.getAll", 0, Cont("resumeActiveTab", "", 0, NoUrl)))
                        ELSE Tail(envWait)
    /\ UNCHANGED <<now, budget, browserVars, trackerVars, store, hist>>

\* saveSessionState's set has landed; a startup handler goes on to
\* resumeActiveTab.
SaveSessionStateSet ==
    /\ HeadIs("saveSessionState")
    /\ store' = [store EXCEPT !.eh_cur_session = Head(storeQ).val]
    /\ storeQ' = Tail(storeQ)
    /\ envWait' = IF Head(storeQ).k.alive /\ Head(storeQ).k.after \in {"onStartup", "onInstalled"}
                  THEN Append(envWait, Query("windows.getAll", 0,
                                             Cont("resumeActiveTab", "", 0, NoUrl)))
                  ELSE envWait
    /\ UNCHANGED <<now, budget, browserVars, trackerVars, sessionVars, hist>>

\* chrome.runtime.onStartup, up to migrateStorage's first get.
OnStartup ==
    /\ "onStartup" \in boot
    /\ boot' = boot \ {"onStartup"}
    /\ storeQ' = Append(storeQ, StoreOp("get", "eh_migration_done", 0,
                                        Cont("migrateStorage", "onStartup", 0, NoUrl)))
    /\ UNCHANGED <<now, budget, tabUrl, activeOf, focusedWin, trackerVars,
                   sessionVars, store, envWait, hist>>

\* chrome.runtime.onInstalled, up to migrateStorage's first get.  What it does
\* after resumeActiveTab (the backfill) touches the history key only.
OnInstalled ==
    /\ "onInstalled" \in boot
    /\ boot' = boot \ {"onInstalled"}
    /\ storeQ' = Append(storeQ, StoreOp("get", "eh_migration_done", 0,
                                        Cont("migrateStorage", "onInstalled", 0, NoUrl)))
    /\ UNCHANGED <<now, budget, tabUrl, activeOf, focusedWin, trackerVars,
                   sessionVars, store, envWait, hist>>

\* The browser starts (onStartup), the extension is updated (onInstalled), or
\* the browser starts after an update of its own (both): a fresh worker.
BootEvents == {{"onStartup"}, {"onInstalled"}, {"onStartup", "onInstalled"}}
BrowserStart(b) ==
    /\ budget.ev > 0 /\ Spend
    /\ ResetWorker
    /\ boot' = b

SessInit ==
    /\ now = StartClock
    /\ budget = [adv |-> MaxSessAdvances, ev |-> MaxSessEvents]
    /\ tabUrl = (1 :> UrlWwwA @@ 2 :> UrlB @@ 3 :> UrlChrome)
    /\ activeOf = (1 :> 1 @@ 2 :> 3)
    /\ focusedWin = 1
    /\ boot = {"onStartup"}
    /\ InitMemory
    /\ store = InitStore
    /\ storeQ = <<>>
    /\ envWait = <<>>
    /\ hist = InitHist

SessNext ==
    \/ \E b \in BootEvents : BrowserStart(b)
    \/ Restart
    \/ OnStartup
    \/ OnInstalled
    \/ \E tab \in Tabs, url \in SessUrls : SessionOnCreated(tab, url)
    \/ \E tab \in Tabs, url \in SessUrls : SessionOnUpdated(tab, url)
    \/ \E tab \in Tabs : SessionOnRemoved(tab)
    \/ DropDead
    \/ MigrateStorageGet
    \/ MigrateStorageLegacy
    \/ MigrateStorageSet
    \/ LoadSessionStateGet
    \/ GetSessionsGet
    \/ GetMaxSessionsGet
    \/ SaveSessionsSet
    \/ ClearSessionStateRemove
    \/ SaveSessionStateSet
    \/ TabsQueryAllAnswer
    \/ WindowsGetAllAnswer
    \/ TabsQueryAnswer
    \/ \E d \in SessDeltas : Advance(d)

SessSpec == SessInit /\ [][SessNext]_vars

\* ── The browser throws ─────────────────────────────────────────────────────
\* chrome.tabs.get, chrome.tabs.query or chrome.windows.getAll rejects.  Each
\* is awaited inside a try block with an empty catch: the handler goes on
\* after the catch.
MaxQueryAdvances == 1
MaxQueryEvents == 3

\* A catch block that starts the clock of a segment.
caughtStarts(t, n) == restartSegment(t, n)
\* catch {}: the tracker after the catch block, at instant n.
caught(t, n) == t

\* What a failed query could have changed: tracker, tab records and ledger.
Affected(t, tabs, st) == [tracker |-> t, tabs |-> tabs, ledger |-> st.eh_time]
histQueryFail(h, o, t, tabs, saved) ==
    [h EXCEPT !.queryFail = [done |-> TRUE, q |-> o.q,
                             before |-> Affected(Cur, sessionTabs, store),
                             after |-> Affected(t, tabs, store),
                             saved |-> saved]]

\* chrome.tabs.get(tabId) throws in the onActivated listener.
TabsGetFails ==
    /\ envWait # <<>>
    /\ Head(envWait).q = "tabs.get"
    /\ SetTracker(caught(Cur, now))
    /\ envWait' = Tail(envWait)
    /\ hist' = histQueryFail(hist, Head(envWait), caught(Cur, now), sessionTabs, FALSE)
    /\ UNCHANGED <<now, budget, browserVars, sessionVars, store, storeQ>>

\* chrome.tabs.query({active: true, windowId}) throws in onFocusChanged or in
\* resumeActiveTab.
TabsQueryFails ==
    /\ envWait # <<>>
    /\ Head(envWait).q = "tabs.query"
    /\ SetTracker(caught(Cur, now))
    /\ envWait' = Tail(envWait)
    /\ hist' = histQueryFail(hist, Head(envWait), caught(Cur, now), sessionTabs, FALSE)
    /\ UNCHANGED <<now, budget, browserVars, sessionVars, store, storeQ>>

\* chrome.windows.getAll() throws in resumeActiveTab.
WindowsGetAllFails ==
    /\ envWait # <<>>
    /\ Head(envWait).q = "windows.getAll"
    /\ SetTracker(caught(Cur, now))
    /\ envWait' = Tail(envWait)
    /\ hist' = histQueryFail(hist, Head(envWait), caught(Cur, now), sessionTabs, FALSE)
    /\ UNCHANGED <<now, budget, browserVars, sessionVars, store, storeQ>>

\* chrome.tabs.query({}) throws in beginSession, which goes on to save the
\* snapshot.
TabsQueryAllFails ==
    /\ envWait # <<>>
    /\ Head(envWait).q = "tabs.queryAll"
    /\ LET k == Head(envWait).k
           save == saveSessionState(sessionId, sessionStart, sessionTabs, k)
       IN /\ storeQ' = storeQ \o save
          /\ envWait' = IF save = <<>>
                        THEN Append(Tail(envWait),
                                    Query("windows.getAll", 0, Cont("resumeActiveTab", "", 0, NoUrl)))
                        ELSE Tail(envWait)
          /\ hist' = histQueryFail(hist, Head(envWait), Cur, sessionTabs,
                                   (sessionId # 0) => (save # <<>>))
    /\ UNCHANGED <<now, budget, browserVars, trackerVars, sessionVars, store>>

\* The browser has started and onStartup is due; the migration was done by an
\* earlier run.  QuerySpec follows the startup handler and the segment
\* listeners that query the browser, with queries that may throw.
QueryInit ==
    /\ now = StartClock
    /\ budget = [adv |-> MaxQueryAdvances, ev |-> MaxQueryEvents]
    /\ tabUrl = (1 :> UrlWwwA @@ 2 :> UrlB @@ 3 :> UrlChrome)
    /\ activeOf = (1 :> 1 @@ 2 :> 3)
    /\ focusedWin = 1
    /\ boot = {"onStartup"}
    /\ InitMemory
    /\ store = [InitStore EXCEPT !.eh_migration_done = TRUE]
    /\ storeQ = <<>>
    /\ envWait = <<>>
    /\ hist = InitHist

QueryNext ==
    \/ OnStartup
    \/ MigrateStorageGet
    \/ LoadSessionStateGet
    \/ TabsQueryAllAnswer
    \/ TabsQueryAllFails
    \/ SaveSessionStateSet
    \/ WindowsGetAllAnswer
    \/ WindowsGetAllFails
    \/ TabsQueryAnswer
    \/ TabsQueryFails
    \/ \E tab \in Tabs : OnActivated(tab)
    \/ TabsGetAnswer
    \/ TabsGetFails
    \/ OnFocusLost
    \/ \E wid \in Windows : OnFocusGained(wid)
    \/ OnAlarm
    \/ AddTimeRead
    \/ AddTimeWrite
    \/ \E d \in Deltas : Advance(d)

QuerySpec == QueryInit /\ [][QueryNext]_vars

\* ── Session messages ───────────────────────────────────────────────────────
\* handle(msg) for GET_SESSIONS and SET_MAX_SESSIONS.  msg.value is an integer.
MaxMsgEvents == 3
\* Message handlers that may be awaiting the store at once.
MaxMsgInFlight == 3
CanStartMsg == InFlight < MaxMsgInFlight /\ budget.ev > 0

\* list.slice().reverse()
reverse(list) == [i \in 1..Len(list) |-> list[Len(list) - i + 1]]
\* parseInt(msg.value) || MAX_SESSIONS_DEFAULT
parsedOrDefault(value) == IF value = 0 THEN MAX_SESSIONS_DEFAULT ELSE value
\* Math.max(1, Math.min(20, parseInt(msg.value) || MAX_SESSIONS_DEFAULT))
clampMax(value) == Max(1, Min(20, parsedOrDefault(value)))
\* list.slice(-val), of a list longer than val
trimTo(list, val) == lastN(list, val)

\* current: sessionId ? {id, start, tabs: Object.values(sessionTabs).filter(t => t.url)} : null
currentOf(id, start, tabs) ==
    IF id = 0 THEN NoCurrent
    ELSE [present |-> TRUE, id |-> id, start |-> start, tabs |-> withUrl(valuesOf(tabs))]

\* case 'GET_SESSIONS', up to `await getSessions()`.
GET_SESSIONS ==
    /\ CanStartMsg /\ Spend
    /\ storeQ' = Append(storeQ, StoreOp("get", "eh_sessions", 0,
                                        Cont("GET_SESSIONS.getSessions", "GET_SESSIONS", 0, NoUrl)))
    /\ UNCHANGED <<now, browserVars, trackerVars, sessionVars, store, envWait, hist>>

\* GET_SESSIONS, after `await getSessions()`, up to getMaxSessions' get.
GetSessionsList ==
    /\ HeadIs("GET_SESSIONS.getSessions") /\ Head(storeQ).k.alive
    /\ storeQ' = Append(Tail(storeQ),
                        StoreOp("get", "eh_max_sessions", 0,
                                [Head(storeQ).k EXCEPT !.fn = "GET_SESSIONS.getMaxSessions",
                                                       !.list = store.eh_sessions,
                                                       !.seen = hist.completed]))
    /\ UNCHANGED <<now, budget, browserVars, trackerVars, sessionVars, store, envWait, hist>>

\* GET_SESSIONS, after `await getMaxSessions()`: the response.  Beside it are
\* kept the sessions archived when the list was read, and the snapshot in the store when no
\* other call to the store is pending and no lifecycle event is due.
GetSessionsRespond ==
    /\ HeadIs("GET_SESSIONS.getMaxSessions") /\ Head(storeQ).k.alive
    /\ storeQ' = Tail(storeQ)
    /\ hist' = [hist EXCEPT !.sessionsResp =
                  [done |-> TRUE,
                   sessions |-> reverse(Head(storeQ).k.list),
                   current |-> currentOf(sessionId, sessionStart, sessionTabs),
                   maxSessions |-> maxSessionsOf(store),
                   completed |-> Head(storeQ).k.seen,
                   inFlight |-> /\ store.eh_cur_session.present
                                /\ Tail(storeQ) = <<>> /\ envWait = <<>> /\ boot = {},
                   records |-> withUrl(valuesOf(store.eh_cur_session.sessionTabs))]]
    /\ UNCHANGED <<now, budget, browserVars, trackerVars, sessionVars, store, envWait>>

\* case 'SET_MAX_SESSIONS', up to `await chrome.storage.local.set({eh_max_sessions: val})`.
SET_MAX_SESSIONS(value) ==
    /\ CanStartMsg /\ Spend
    /\ storeQ' = Append(storeQ,
                        StoreOp("set", "eh_max_sessions", clampMax(value),
                                [Cont("SET_MAX_SESSIONS.set", "SET_MAX_SESSIONS", 0, NoUrl)
                                   EXCEPT !.asked = value, !.val = clampMax(value)]))
    /\ UNCHANGED <<now, browserVars, trackerVars, sessionVars, store, envWait, hist>>

\* SET_MAX_SESSIONS: the set of eh_max_sessions has landed; up to `await getSessions()`.
SetMaxSessionsSet ==
    /\ HeadIs("SET_MAX_SESSIONS.set")
    /\ store' = [store EXCEPT !.eh_max_sessions = Head(storeQ).val]
    /\ storeQ' = IF Head(storeQ).k.alive
                 THEN Append(Tail(storeQ),
                             StoreOp("get", "eh_sessions", 0,
                                     [Head(storeQ).k EXCEPT !.fn = "SET_MAX_SESSIONS.getSessions"]))
                 ELSE Tail(storeQ)
    /\ UNCHANGED <<now, budget, browserVars, trackerVars, sessionVars, envWait, hist>>

\* The SET_MAX_SESSIONS response of handler k, which read `list` and leaves
\* `archive` in the store.
histSetMax(h, k, list, archive) ==
    [h EXCEPT !.cut = FALSE,
              !.setMax = [done |-> TRUE, asked |-> k.asked, val |-> k.val,
                          stored |-> store.eh_max_sessions, read |-> list,
                          archive |-> archive]]

\* SET_MAX_SESSIONS, after `await getSessions()`: the trim, if the list is
\* longer than val, or the response.
SetMaxSessionsList ==
    /\ HeadIs("SET_MAX_SESSIONS.getSessions") /\ Head(storeQ).k.alive
    /\ LET k == Head(storeQ).k
           list == store.eh_sessions
       IN IF Len(list) > k.val
          THEN /\ storeQ' = Append(Tail(storeQ),
                                   StoreOp("set", "eh_sessions", trimTo(list, k.val),
                                           [k EXCEPT !.fn = "SET_MAX_SESSIONS.trim",
                                                     !.list = list]))
               /\ UNCHANGED hist
          ELSE /\ storeQ' = Tail(storeQ)
               /\ hist' = histSetMax(hist, k, list, list)
    /\ UNCHANGED <<now, budget, browserVars, trackerVars, sessionVars, store, envWait>>

\* SET_MAX_SESSIONS: the set of the trimmed list has landed; the response.
SetMaxSessionsTrim ==
    /\ HeadIs("SET_MAX_SESSIONS.trim")
    /\ store' = [store EXCEPT !.eh_sessions = Head(storeQ).val]
    /\ storeQ' = Tail(storeQ)
    /\ hist' = IF Head(storeQ).k.alive
               THEN histSetMax(hist, Head(storeQ).k, Head(storeQ).k.list, Head(storeQ).val)
               ELSE hist
    /\ UNCHANGED <<now, budget, browserVars, trackerVars, sessionVars, envWait>>

\* Five sessions have been archived, each with one tab, and a sixth is in
\* flight with two: its snapshot is in the store.  eh_max_sessions is unset or 2.
\* MsgSpec follows the message handlers through starts of the browser at one
\* instant of the clock.
ArchivedIds == <<1000, 2000, 3000, 4000, 5000>>
ArchivedEntry(id) ==
    [id |-> id, start |-> id, end |-> id + 500, tabCount |-> 1,
     tabs |-> <<TabRecord(UrlB, id, 0)>>]
RequestedMax == {-1, 0, 2, 25}

MsgInit ==
    /\ now = StartClock
    /\ budget = [adv |-> 0, ev |-> MaxMsgEvents]
    /\ tabUrl = (1 :> UrlWwwA @@ 2 :> UrlB @@ 3 :> UrlChrome)
    /\ activeOf = (1 :> 1 @@ 2 :> 3)
    /\ focusedWin = 1
    /\ boot = {}
    /\ activeTabId = InitTracker.activeTabId
    /\ activeDomain = InitTracker.activeDomain
    /\ segmentStart = InitTracker.segmentStart
    /\ windowFocused = InitTracker.windowFocused
    /\ sessionId = 6000
    /\ sessionStart = 6000
    /\ sessionTabs = (1 :> TabRecord(UrlWwwA, 6000, 0) @@ 2 :> TabRecord(UrlB, 6000, 0))
    /\ \E m \in {0, 2} :
          store = [eh_time |-> EmptyLedger,
                   eh_sessions |-> lastN([i \in 1..Len(ArchivedIds) |->
                                             ArchivedEntry(ArchivedIds[i])],
                                         IF m = 0 THEN MAX_SESSIONS_DEFAULT ELSE m),
                   eh_cur_session |-> snapshotOf(sessionId, sessionStart, sessionTabs),
                   eh_max_sessions |-> m,
                   eh_migration_done |-> TRUE]
    /\ storeQ = <<>>
    /\ envWait = <<>>
    /\ hist = [InitHist EXCEPT !.completed = ArchivedIds]

MsgNext ==
    \/ GET_SESSIONS
    \/ GetSessionsList
    \/ GetSessionsRespond
    \/ \E value \in RequestedMax : SET_MAX_SESSIONS(value)
    \/ SetMaxSessionsSet
    \/ SetMaxSessionsList
    \/ SetMaxSessionsTrim
    \/ BrowserStart({"onStartup"})
    \/ Restart
    \/ OnStartup
    \/ \E tab \in Tabs, url \in SessUrls : SessionOnCreated(tab, url)
    \/ \E tab \in Tabs, url \in SessUrls : SessionOnUpdated(tab, url)
    \/ \E tab \in Tabs : SessionOnRemoved(tab)
    \/ DropDead
    \/ MigrateStorageGet
    \/ LoadSessionStateGet
    \/ GetSessionsGet
    \/ GetMaxSessionsGet
    \/ SaveSessionsSet
    \/ ClearSessionStateRemove
    \/ SaveSessionStateSet
    \/ TabsQueryAllAnswer
    \/ WindowsGetAllAnswer
    \/ TabsQueryAnswer

MsgSpec == MsgInit /\ [][MsgNext]_vars

\* ── Time data messages ─────────────────────────────────────────────────────
\* handle(msg) for GET_TIME_DATA and CLEAR_TIME_DATA.  msg.days is an integer.
\* Of a topSites entry the model keeps domain, ms and minutes; hours, ms / 3.6e6
\* formatted to one decimal, is left out.
TOP_SITES == 20
MINUTE_MS == 60000
MaxTimeAdvances == 1
MaxTimeEvents == 2

\* Twenty-one sites.  Object.entries(map) lists the domains in the order of
\* their first write to the ledger: in the ledgers below that is the order of
\* SiteOrder.
SiteLabels == <<"a", "c", "d", "e", "f", "g", "h", "i", "j", "k", "l", "m", "n",
                "o", "p", "q", "r", "s", "t", "u", "v">>
SiteOrder == [i \in 1..Len(SiteLabels) |-> <<SiteLabels[i], "com">>] \o << <<"b", "org">> >>

domainsOf(map) == {p[1] : p \in DOMAIN map}
\* Object.entries(map), as the sequence of its domains.
entriesOf(map) ==
    SelectSeq(SiteOrder, LAMBDA d : d \in domainsOf(map))

\* A window that reaches one day further back.
dateSetOneMore(n, days) == {todayKey(n - i * DAY_MS) : i \in 0..days}
\* for (let i = 0; i < days; i++) dateSet.add(new Date(now - i*86400000).toLocaleDateString('en-CA'))
dateSet(n, days) == {todayKey(n - i * DAY_MS) : i \in 0..(days - 1)}

\* let t = 0; for (const [date, ms] of Object.entries(dayMap)) if (dateSet.has(date)) t += ms
RECURSIVE sumDays(_, _, _)
sumDays(map, domain, dates) ==
    IF dates = {} THEN 0
    ELSE LET day == CHOOSE x \in dates : TRUE IN
         ledgerGet(map, domain, day) + sumDays(map, domain, dates \ {day})
totalOf(map, domain, dates) ==
    sumDays(map, domain, {p[2] : p \in {q \in DOMAIN map : q[1] = domain}} \cap dates)

\* Math.round(ms / 60000), of ms >= 0
minutesOf(ms) == (2 * ms + MINUTE_MS) \div (2 * MINUTE_MS)
Site(domain, ms) == [domain |-> domain, ms |-> ms, minutes |-> minutesOf(ms)]

\* Object.entries(totals): the domains with t > 0, in the order of the map.
totalsOf(map, dates) ==
    LET pos == SelectSeq(entriesOf(map), LAMBDA d : totalOf(map, d, dates) > 0)
    IN [i \in 1..Len(pos) |-> Site(pos[i], totalOf(map, pos[i], dates))]

\* .sort((a, b) => b[1] - a[1]): a stable sort, largest first.
RECURSIVE insertSite(_, _)
insertSite(sorted, e) ==
    IF sorted = <<>> THEN <<e>>
    ELSE IF Head(sorted).ms >= e.ms THEN <<Head(sorted)>> \o insertSite(Tail(sorted), e)
    ELSE <<e>> \o sorted
RECURSIVE sortSites(_)
sortSites(list) ==
    IF list = <<>> THEN <<>>
    ELSE insertSite(sortSites(SubSeq(list, 1, Len(list) - 1)), list[Len(list)])
\* .slice(0, 20)
firstN(list, n) == IF Len(list) > n THEN SubSeq(list, 1, n) ELSE list

topSitesOf(map, dates) == firstN(sortSites(totalsOf(map, dates)), TOP_SITES)

\* dailyMap[date][domain] = (dailyMap[date][domain] || 0) + ms, for the dates
\* of dateSet.
dailyMapOf(map, dates) ==
    LET used == {p[2] : p \in DOMAIN map} \cap dates IN
    [date \in used |->
        [d \in {q[1] : q \in {p \in DOMAIN map : p[2] = date}} |-> map[<<d, date>>]]]

\* case 'GET_TIME_DATA', up to `await chrome.storage.local.get(TIME_KEY)`.
GET_TIME_DATA(days) ==
    /\ CanStart /\ Spend
    /\ storeQ' = Append(storeQ,
                        StoreOp("get", "eh_time", EmptyLedger,
                                [Cont("GET_TIME_DATA", "GET_TIME_DATA", 0, NoUrl)
                                   EXCEPT !.asked = days]))
    /\ UNCHANGED <<now, browserVars, trackerVars, sessionVars, store, envWait, hist>>

\* GET_TIME_DATA, after its get: the response.
GetTimeDataRespond ==
    /\ HeadIs("GET_TIME_DATA") /\ Head(storeQ).k.alive
    /\ storeQ' = Tail(storeQ)
    /\ LET days == Head(storeQ).k.asked
           dates == dateSet(now, days)
       IN hist' = [hist EXCEPT !.timeData =
                     [done |-> TRUE, days |-> days, at |-> now, ledger |-> store.eh_time,
                      topSites |-> topSitesOf(store.eh_time, dates),
                      dailyMap |-> dailyMapOf(store.eh_time, dates)]]
    /\ UNCHANGED <<now, budget, browserVars, trackerVars, sessionVars, store, envWait>>

\* case 'CLEAR_TIME_DATA', up to `await chrome.storage.local.remove(TIME_KEY)`.
CLEAR_TIME_DATA ==
    /\ CanStart /\ Spend
    /\ storeQ' = Append(storeQ,
                        StoreOp("remove", "eh_time", EmptyLedger,
                                Cont("CLEAR_TIME_DATA", "CLEAR_TIME_DATA", 0, NoUrl)))
    /\ UNCHANGED <<now, browserVars, trackerVars, sessionVars, store, envWait, hist>>

\* CLEAR_TIME_DATA: the remove has landed.
ClearTimeDataRemove ==
    /\ HeadIs("CLEAR_TIME_DATA")
    /\ store' = [store EXCEPT !.eh_time = EmptyLedger]
    /\ storeQ' = Tail(storeQ)
    /\ UNCHANGED <<now, budget, browserVars, trackerVars, sessionVars, envWait, hist>>

\* The ledgers GET_TIME_DATA is asked about, at noon of day 5: one of two
\* sites over several days, and one of twenty-one sites, each visited today
\* for a different time and the first of them yesterday too.
Today == 5
LedgerTwo ==
    (<<SiteOrder[1], 3>> :> 5000 @@ <<SiteOrder[1], 4>> :> 3000 @@ <<SiteOrder[1], 5>> :> 2000
       @@ <<SiteOrder[22], 2>> :> 9000 @@ <<SiteOrder[22], 5>> :> 1000)
LedgerMany ==
    [p \in {<<SiteOrder[i], Today>> : i \in 1..Len(SiteLabels)} \cup {<<SiteOrder[1], Today - 1>>} |->
        IF p[2] = Today
        THEN 1000 * (CHOOSE i \in 1..Len(SiteLabels) : SiteOrder[i] = p[1])
        ELSE 50000]
RequestedDays == {0, 1, 2, 3, 7}
TimeDeltas == {43200000}

TimeDataInit ==
    /\ now = Today * DAY_MS + 43200000
    /\ budget = [adv |-> MaxTimeAdvances, ev |-> MaxTimeEvents]
    /\ tabUrl = (1 :> UrlWwwA @@ 2 :> UrlB @@ 3 :> UrlChrome)
    /\ activeOf = (1 :> 1 @@ 2 :> 3)
    /\ focusedWin = 1
    /\ boot = {}
    /\ InitMemory
    /\ \E map \in {EmptyLedger, LedgerTwo, LedgerMany} :
          store = [InitStore EXCEPT !.eh_time = map]
    /\ storeQ = <<>>
    /\ envWait = <<>>
    /\ hist = InitHist

TimeDataNext ==
    \/ \E days \in RequestedDays : GET_TIME_DATA(days)
    \/ GetTimeDataRespond
    \/ CLEAR_TIME_DATA
    \/ ClearTimeDataRemove
    \/ Restart
    \/ DropDead
    \/ \E d \in TimeDeltas : Advance(d)

TimeDataSpec == TimeDataInit /\ [][TimeDataNext]_vars

\* ── Everything that touches the store ──────────────────────────────────────
\* The segment tracker, the session tracker and the message handlers side by
\* side: a segment has been running on tab 1 for two minutes, session 6000
\* is in flight, four sessions are archived and the ledger holds 5000 ms of
\* today for a.com.  Of a tab event either tracker's listener is followed.
MaxLedgerAdvances == 1
MaxLedgerEvents == 2
LedgerMax == {2}
LedgerDays == {2}

LedgerInit ==
    /\ now = DAY_MS + 43200000
    /\ budget = [adv |-> MaxLedgerAdvances, ev |-> MaxLedgerEvents]
    /\ tabUrl = (1 :> UrlWwwA @@ 2 :> UrlB @@ 3 :> UrlChrome)
    /\ activeOf = (1 :> 1 @@ 2 :> 3)
    /\ focusedWin = 1
    /\ boot = {}
    /\ activeTabId = 1
    /\ activeDomain = domainOf(UrlWwwA)
    /\ segmentStart = now - 120000
    /\ windowFocused = TRUE
    /\ sessionId = 6000
    /\ sessionStart = 6000
    /\ sessionTabs = (1 :> TabRecord(UrlWwwA, 6000, 0) @@ 2 :> TabRecord(UrlB, 6000, 0))
    /\ store = [eh_time |-> (<<domainOf(UrlWwwA), todayKey(now)>> :> 5000),
                eh_sessions |-> lastN([i \in 1..Len(ArchivedIds) |->
                                          ArchivedEntry(ArchivedIds[i])],
                                      MAX_SESSIONS_DEFAULT),
                eh_cur_session |-> snapshotOf(sessionId, sessionStart, sessionTabs),
                eh_max_sessions |-> 0,
                eh_migration_done |-> TRUE]
    /\ storeQ = <<>>
    /\ envWait = <<>>
    /\ hist = [InitHist EXCEPT !.completed = ArchivedIds]

LedgerNext ==
    \/ Next
    \/ \E tab \in Tabs, url \in SessUrls : SessionOnCreated(tab, url)
    \/ \E tab \in Tabs, url \in SessUrls : SessionOnUpdated(tab, url)
    \/ \E tab \in Tabs : SessionOnRemoved(tab)
    \/ BrowserStart({"onStartup"})
    \/ OnStartup
    \/ DropDead
    \/ MigrateStorageGet
    \/ LoadSessionStateGet
    \/ GetSessionsGet
    \/ GetMaxSessionsGet
    \/ SaveSessionsSet
    \/ ClearSessionStateRemove
    \/ SaveSessionStateSet
    \/ TabsQueryAllAnswer
    \/ GET_SESSIONS
    \/ GetSessionsList
    \/ GetSessionsRespond
    \/ \E value \in LedgerMax : SET_MAX_SESSIONS(value)
    \/ SetMaxSessionsSet
    \/ SetMaxSessionsList
    \/ SetMaxSessionsTrim
    \/ \E days \in LedgerDays : GET_TIME_DATA(days)
    \/ GetTimeDataRespond
    \/ CLEAR_TIME_DATA
    \/ ClearTimeDataRemove

LedgerSpec == LedgerInit /\ [][LedgerNext]_vars

\* ── Properties ─────────────────────────────────────────────────────────────
\* The sum of a domain's ledger entries over all days.
RECURSIVE SumLedger(_, _, _)
SumLedger(map, domain, S) ==
    IF S = {} THEN 0
    ELSE LET p == CHOOSE x \in S : TRUE IN
         (IF p[1] = domain THEN map[p] ELSE 0) + SumLedger(map, domain, S \ {p})
ledgerTotal(map, domain) == SumLedger(map, domain, DOMAIN map)
PendingAddTime == {i \in 1..Len(storeQ) : storeQ[i].k.fn \in {"addTime", "addTimeSet"}}
Written == hist.lastWrite.at # 0

\* C1: for every domain, the milliseconds by which ledger writes have raised
\* its entries never exceed the milliseconds during which a tab showing the
\* domain was the active tab of the focused browser window.
C1_CreditWithinFocusedTime ==
    \A d \in Domains : hist.credited[d] <= hist.focused[d]

\* C2: no interval of time is handed to the ledger twice. Every segment that
\* commitSegment hands to addTime begins at or after the end of the one handed
\* over before it, the segments of the addTime calls still awaiting the store
\* do not overlap each other, and a running segment begins at or after the end
\* of the last one handed over.
C2_NoIntervalCommittedTwice ==
    /\ ~hist.overlap
    /\ segmentStart # 0 => segmentStart >= hist.coveredUntil
    /\ \A i, j \in PendingAddTime :
          i # j => \/ storeQ[i].k.at <= storeQ[j].k.at - storeQ[j].k.el
                   \/ storeQ[j].k.at <= storeQ[i].k.at - storeQ[i].k.el
\* A commitSegment call found the start marker cleared, and added nothing,
\* while an earlier call's addTime was still awaiting the store.
C2_Witness ==
    /\ \E i \in PendingAddTime : storeQ[i].k.alive /\ storeQ[i].k.at <= hist.lastCommit.at
    /\ hist.lastCommit.at # 0
    /\ hist.lastCommit.start = 0
    /\ hist.lastCommit.amount = 0

\* C3: a segment of less than 1000 ms never reaches the ledger (no write in
\* flight or landed stems from one), and a segment of exactly 1000 ms, with at
\* least 1000 ms of the day elapsed, is handed to addTime as 1000 ms and is
\* written as the value read plus 1000, unless the worker is stopped first.
C3_ShortDiscardedExactKept ==
    /\ \A i \in PendingAddTime : storeQ[i].k.el >= 1000
    /\ Written => hist.lastWrite.elapsed >= 1000
    /\ (hist.lastCommit.running /\ hist.lastCommit.elapsed < 1000)
          => hist.lastCommit.amount = 0
    /\ (hist.lastCommit.running /\ hist.lastCommit.elapsed = 1000
            /\ hist.lastCommit.sinceDay >= 1000)
          => /\ hist.lastCommit.amount = 1000
             /\ \/ \E i \in PendingAddTime :
                      storeQ[i].k.at = hist.lastCommit.at /\ storeQ[i].k.ms = 1000
                \/ /\ hist.lastWrite.commitAt = hist.lastCommit.at
                   /\ hist.lastWrite.ms = 1000
                   /\ ledgerGet(store.eh_time, hist.lastWrite.domain, hist.lastWrite.day)
                        = hist.lastWrite.read + 1000
                \/ hist.lastCommit.lost
C3_Witness ==
    /\ Written
    /\ hist.lastWrite.elapsed = 1000
    /\ ledgerGet(store.eh_time, hist.lastWrite.domain, hist.lastWrite.day) = 1000

\* C4, as the specification states it: a segment of 7,200,000 ms or more is discarded.
C4_Original ==
    (hist.lastCommit.running /\ hist.lastCommit.elapsed >= 7200000)
       => hist.lastCommit.amount = 0
\* C4, as the code has it: a segment of more than 7,200,000 ms is discarded entirely (no
\* write in flight or landed stems from one); a segment of 7,199,999 ms or of
\* exactly 7,200,000 ms is kept, reduced only by the midnight cap.
C4_LongDiscardedBoundaryKept ==
    /\ \A i \in PendingAddTime : storeQ[i].k.el <= 7200000
    /\ Written => hist.lastWrite.elapsed <= 7200000
    /\ (hist.lastCommit.running /\ hist.lastCommit.elapsed > 7200000)
          => hist.lastCommit.amount = 0
    /\ (hist.lastCommit.running /\ hist.lastCommit.elapsed \in {7199999, 7200000}
            /\ hist.lastCommit.sinceDay >= 1000)
          => hist.lastCommit.amount = Min(hist.lastCommit.elapsed, hist.lastCommit.sinceDay)
C4_Witness ==
    /\ Written
    /\ hist.lastWrite.elapsed = 7200000
    /\ ledgerGet(store.eh_time, hist.lastWrite.domain, hist.lastWrite.day) = 7200000

\* C5: every ledger write adds min(elapsed, ms since local midnight at the
\* commit) under the day key of the day of the commit.
C5_CappedAmountUnderCommitDay ==
    Written =>
       /\ hist.lastWrite.ms = Min(hist.lastWrite.elapsed,
                                  hist.lastWrite.commitAt - midnightOf(hist.lastWrite.commitAt))
       /\ hist.lastWrite.day = todayKey(hist.lastWrite.commitAt)

\* C6: all ledger values are non-negative, and no write adds to a day key more
\* milliseconds than have elapsed of that day at the moment of the write.
C6_WriteWithinElapsedDay ==
    /\ \A p \in DOMAIN store.eh_time : store.eh_time[p] >= 0
    /\ Written => hist.lastWrite.ms <= hist.lastWrite.at - hist.lastWrite.day * DAY_MS

TwoFlushes == Len(hist.flushes) = 2 /\ hist.flushes[2].at - hist.flushes[1].at < 1000
\* C7, as the specification states it: two FLUSH_TIME requests less than 1000 ms apart add to the
\* ledger, together, exactly the time elapsed of the segment the first one
\* found running.
C7_Original ==
    TwoFlushes => hist.flushes[1].added + hist.flushes[2].added = hist.flushes[1].elapsed
\* C7, as the code has it: of two FLUSH_TIME requests less than 1000 ms apart, the second
\* hands nothing to addTime if the first handed something; together they hand
\* over no more than the time from the start of the segment the first one found
\* to the second request; and all that has been handed to addTime since the
\* first request, by whichever handler, is no more than the time gone by since
\* that start (since the first request, when it found no start marker).
C7_TwoFlushesNoDoubleCount ==
    TwoFlushes
       => /\ hist.flushes[1].added > 0 => hist.flushes[2].added = 0
          /\ hist.flushes[1].added + hist.flushes[2].added
               <= IF hist.flushes[1].seg # 0
                  THEN hist.flushes[2].at - hist.flushes[1].seg ELSE 0
          /\ Handed(hist, storeQ) - hist.flushes[1].before
               <= now - (IF hist.flushes[1].seg # 0
                         THEN Min(hist.flushes[1].seg, hist.flushes[1].at)
                         ELSE hist.flushes[1].at)
C7_Witness ==
    /\ TwoFlushes
    /\ hist.flushes[1].added >= 1000
    /\ hist.flushes[1].added = hist.flushes[1].at - hist.flushes[1].seg
    /\ hist.flushes[2].seg # 0
    /\ hist.flushes[2].added = 0
    /\ Handed(hist, storeQ) - hist.flushes[1].before = hist.flushes[1].added

Responded == hist.flushResp.at # 0
C9_SecondFinishIsNoOp ==
    /\ ~hist.fin.found
    /\ hist.fin.done => store.eh_sessions = hist.fin.archive
\* Such a second call has returned without archiving, after a first call that
\* archived a session.
C9_Witness ==
    /\ hist.fin.noop
    /\ hist.fin.noopLen >= 1
    /\ Len(store.eh_sessions) = hist.fin.noopLen

\* C10: after a restart that loses the memory of a session in flight, the
\* reload of the snapshot sets sessionId, sessionStart and sessionTabs to the
\* values they had just before the restart, and the finishSession that made the
\* reload, when no tab event has changed the session in between, writes an
\* archive whose new entry holds exactly those tab records (none, when there
\* was no record with a URL).
C10_ReloadRestoresAndArchives ==
    /\ hist.reload.done => hist.reload.same
    /\ hist.archived.done => hist.archived.ok

\* C11: once every pending call to the store has completed, the archive holds
\* no more entries than the configured maxSessions, whatever finishSession and
\* SET_MAX_SESSIONS handlers have run to their end, overlapping or not (a
\* SET_MAX_SESSIONS lost with the worker before its trim is left aside).
C11_ArchiveWithinMax ==
    (storeQ = <<>> /\ ~hist.cut) => Len(store.eh_sessions) <= maxSessionsOf(store)

\* C12: when more sessions have been completed than maxSessions allows, the
\* oldest are evicted first and GET_SESSIONS returns the most recently
\* completed ones, the most recent first: the session completed last, when
\* the archive was read, is the first of the list returned.
C12_NewestCompletedFirst ==
    LET r == hist.sessionsResp IN
    (r.done /\ Len(r.completed) > r.maxSessions)
        => /\ r.sessions # <<>>
           /\ r.sessions[1].id = r.completed[Len(r.completed)]

\* C13: for every requested integer n, 0, negative values and values above
\* 20 included, SET_MAX_SESSIONS(n) stores the bound max(1, min(20, n)) and
\* leaves in the archive at most that many entries, the most recent ones of
\* those it read.
C13_StoresClampedBoundAndTrims ==
    LET r == hist.setMax IN
    r.done => /\ r.val = Max(1, Min(20, r.asked))
              /\ Len(r.archive) <= r.val
              /\ r.archive = lastN(r.read, r.val)

\* C14: whenever a session is in flight (its snapshot is in the store and no
\* handler is at work on it), GET_SESSIONS returns a current session that is
\* not null and whose tab list is the snapshot's records with a URL, also
\* after the worker has been restarted.
C14_CurrentIsInFlightSession ==
    LET r == hist.sessionsResp IN
    (r.done /\ r.inFlight) => (r.current.present /\ r.current.tabs = r.records)

\* C15: once every handler that changed the current session (beginSession, a
\* tab created, navigated or closed) has finished and no call is pending, the
\* snapshot in the store equals the memory's {sessionId, sessionStart,
\* sessionTabs}.
C15_SnapshotEqualsMemory ==
    (storeQ = <<>> /\ envWait = <<>> /\ boot = {} /\ sessionId # 0)
        => store.eh_cur_session = [present |-> TRUE, sessionId |-> sessionId,
                                   sessionStart |-> sessionStart,
                                   sessionTabs |-> sessionTabs]
\* A tab listener has changed the session since it began, and its save has landed.
C15_Witness ==
    /\ storeQ = <<>> /\ envWait = <<>> /\ boot = {}
    /\ sessionId # 0 /\ hist.pre.touched
    /\ \E t \in DOMAIN sessionTabs : sessionTabs[t].closed # 0
    /\ store.eh_cur_session.sessionTabs = sessionTabs

\* C16: every trackable tab created or navigated while a session is in flight
\* has a record in the tab list finishSession archives for that session, also
\* when the worker was restarted in between.
C16_SeenTabsAreArchived == hist.unrecorded = {}

\* C17: at every start of the worker, on browser startup and on install or
\* update alike, finishSession has run to completion before beginSession
\* starts: no beginSession starts while the store still holds the snapshot of
\* a session with tab records that has not been archived and removed.
C17_FinishBeforeBegin == ~hist.beganUnfinished

\* C18: while a segment is running with the window focused and the tick fires
\* on schedule, the uncommitted age of the segment, now minus segmentStart,
\* never exceeds one tick interval.
C18_AgeWithinTick ==
    segmentRunning(Cur) => now - segmentStart <= TICK_MS

\* C19: after a restart has lost the tracker's memory while a browser window
\* is focused on a trackable tab, and with no further tab or focus event, a
\* tick re-derives the active tab from the browser and a segment for that tab
\* and its domain is eventually running.
C19_SelfHeals ==
    (trueDomain # NoDomain /\ Cur = InitTracker)
        ~> (/\ segmentRunning(Cur)
            /\ activeTabId = activeOf[focusedWin]
            /\ activeDomain = trueDomain)
\* The worker has been restarted and the segment of the focused tab runs again.
C19_Witness ==
    /\ budget.ev < MaxHealEvents
    /\ trueDomain # NoDomain
    /\ segmentRunning(Cur)
    /\ activeTabId = activeOf[focusedWin]
    /\ activeDomain = trueDomain

C21_FailedCommitHandlerGoesOn ==
    (/\ hist.fail.done /\ hist.fail.alive
     /\ hist.fail.handler \in {"activated", "navIdle", "navStart", "removed",
                               "focusLost", "tick"})
        => hist.fail.left = hist.fail.rest

\* C22: when a query of the browser (a tab by its id, the windows, the tabs
\* of a window, all tabs) throws during tab-activated, focus-gained, the
\* tick's self-heal or beginSession, the handler treats it as nothing found:
\* the tracker is as it was before the failure (no segment is started), no
\* tab record is added, the ledger is unchanged, and the handler goes on
\* (beginSession saves its snapshot).
C22_FailedQueryFindsNothing ==
    LET f == hist.queryFail IN
    f.done => /\ f.after.tracker = f.before.tracker
              /\ f.after.tabs = f.before.tabs
              /\ f.after.ledger = f.before.ledger
              /\ f.q = "tabs.queryAll" => f.saved
\* The query of the focused window's active tab has thrown on a trackable
\* tab: no segment is running, and the session in flight has no tab record.
C22_Witness ==
    /\ hist.queryFail.done
    /\ hist.queryFail.q \in {"tabs.query", "tabs.get"}
    /\ trueDomain # NoDomain
    /\ ~segmentRunning(Cur)
    /\ envWait = <<>>

\* C23: no increment written to the ledger is lost to an overlapping write:
\* starting from an empty ledger, each domain's entries sum to all the
\* increments the addTime calls have written for it, also when one addTime
\* starts before another has written.
C23_NoIncrementLost ==
    \A d \in Domains : ledgerTotal(store.eh_time, d) = hist.credited[d]

C26_FocusLossCommits ==
    (hist.focusLoss.done /\ hist.focusLoss.running)
        => /\ hist.focusLoss.committed
           /\ hist.focusLoss.cleared

\* C27: when the focus moves from one browser window to another while a
\* segment is running, the time the segment has accrued, within the guards,
\* is handed to the ledger by the focus-gained listener, and when the query
\* for the new window's active tab finds no trackable tab the old segment is
\* not left running.
C27_FocusGainCommitsAndReplaces ==
    LET g == hist.focusGain IN
    (g.done /\ g.direct /\ g.running)
        => /\ g.committed
           /\ (g.answered /\ ~g.found) => ~g.stillRunning

\* C28: no time of an interval during which no browser window had the focus
\* is ever handed to the ledger, whatever the events and also when the worker
\* (re)starts while the browser is unfocused: the milliseconds a commit hands
\* to addTime end at the commit and begin after the last clock step that
\* passed with no window focused.
C28_NoCreditWhileUnfocused == ~hist.creditedDark

\* A step of the tab-activated listener: its first, when the event is
\* delivered, and its last, when chrome.tabs.get answers.
ActivatedFirst == activeOf' # activeOf /\ tabUrl' = tabUrl
ActivatedLast ==
    /\ envWait # <<>> /\ Head(envWait).q = "tabs.get" /\ envWait' = Tail(envWait)
    /\ budget' = budget
\* No other handler was in flight when the event was delivered, and no other
\* event has been delivered since.
Uninterleaved(k) == k.alone /\ k.ev = budget.ev /\ budget' = budget

\* What the tab-activated listener does in its first step: the running
\* segment's time, within the guards, is handed to the ledger, and with the
\* window unfocused the handler ends there with the tracker idle.
ActivatedCommits ==
    ActivatedFirst
       => /\ Handed(hist', storeQ') - Handed(hist, storeQ) = commitAmount(Cur, now)
          /\ ~windowFocused
                => /\ envWait' = envWait /\ storeQ' = storeQ
                   /\ activeTabId' = 0 /\ activeDomain' = NoDomain
                   /\ segmentStart' = 0
\* What its last step leaves when no other event was interleaved: a segment on
\* the activated tab with the given start, or an idle tracker.
ActivatedEnds(start) ==
    (ActivatedLast /\ Uninterleaved(Head(envWait).k))
       => LET tab == Head(envWait).arg
          IN IF windowFocused /\ isTrackable(tabUrl[tab])
             THEN /\ activeTabId' = tab
                  /\ activeDomain' = domainOf(tabUrl[tab])
                  /\ segmentStart' = start
                  /\ windowFocused'
             ELSE /\ activeTabId' = 0 /\ activeDomain' = NoDomain
                  /\ segmentStart' = 0

\* C29, as the specification states it: a tab-activated event commits the
\* running segment, and when its handler completes with no other event
\* interleaved, then with the window focused and the tab's URL trackable a
\* segment is running with the tab's id, its domain and the instant of the
\* activation as its start, and otherwise no segment is running and active tab
\* and domain are empty.
C29_Original ==
    [][ActivatedCommits /\ ActivatedEnds(Head(envWait).k.began)]_vars
\* C29, as the code has it: the segment's start is the instant at which the
\* handler completes, that is, the reading of the clock after the store and
\* chrome.tabs.get have answered, not the instant of the activation.
C29_ActivatedCommitsThenStarts ==
    [][ActivatedCommits /\ ActivatedEnds(now)]_vars
\* A tab-activated event has committed the segment of the tab left, the clock
\* has moved while its calls were in flight, and its handler has completed: a
\* segment runs on the activated tab since the completion.
C29_Witness ==
    /\ hist.lastCommit.amount > 0 /\ hist.lastCommit.at < now
    /\ hist.lastWrite.commitAt = hist.lastCommit.at
    /\ Quiet
    /\ segmentRunning(Cur)
    /\ activeTabId = 2 /\ activeDomain = domainOf(UrlB) /\ segmentStart = now

\* A step of the onUpdated listener for `tab`: its first, when a URL change
\* is delivered, and its last, when addTime's write has been answered.
UpdatedFirst(tab) ==
    tabUrl[tab] # NoUrl /\ tabUrl'[tab] # NoUrl /\ tabUrl'[tab] # tabUrl[tab]
UpdatedLast ==
    /\ storeQ # <<>> /\ Head(storeQ).k.fn = "addTimeSet" /\ storeQ' = Tail(storeQ)
    /\ Head(storeQ).k.after \in {"navStart", "navIdle"}
    /\ Head(storeQ).k.alive /\ budget' = budget
\* What the listener leaves once commitSegment has returned, for the URL the
\* tab went to.
UpdatedEnds(tab, url) ==
    IF isTrackable(url)
    THEN /\ activeTabId' = tab /\ activeDomain' = domainOf(url)
         /\ segmentStart' = now
    ELSE /\ activeDomain' = NoDomain
         /\ ~segmentRunning(Tracker(activeTabId', activeDomain', segmentStart',
                                    windowFocused'))

\* C30: a URL change on the tracked tab hands the running segment's time,
\* within the guards, to addTime under the domain the segment ran on, and once
\* commitSegment has returned the tracker holds a segment on that tab under
\* the new URL's domain when the new URL is trackable, and no domain and no
\* running segment when it is not; an update for any other tab, and an update
\* that carries no URL, change none of activeTabId, activeDomain, segmentStart
\* and the ledger, and queue no write of it.
C30_UrlChangeCommitsThenStarts ==
    [][/\ \A tab \in Tabs :
            UpdatedFirst(tab) =>
               IF tab = activeTabId
               THEN LET amt == commitAmount(Cur, now) IN
                    /\ Handed(hist', storeQ') - Handed(hist, storeQ) = amt
                    /\ segmentStart' = 0 \/ segmentStart' = now
                    /\ IF amt > 0 /\ activeDomain # NoDomain
                       THEN /\ storeQ' # <<>>
                            /\ storeQ'[Len(storeQ')].k.domain = activeDomain
                            /\ storeQ'[Len(storeQ')].k.ms = amt
                            /\ storeQ'[Len(storeQ')].k.fn = "addTime"
                       ELSE /\ storeQ' = storeQ
                            /\ UpdatedEnds(tab, tabUrl'[tab])
               ELSE /\ UNCHANGED <<activeTabId, activeDomain, segmentStart>>
                    /\ store'.eh_time = store.eh_time /\ storeQ' = storeQ
       /\ UpdatedLast
             => UpdatedEnds(Head(storeQ).k.tab, Head(storeQ).k.url)
       /\ hist'.updates # hist.updates
             => /\ UNCHANGED <<activeTabId, activeDomain, segmentStart>>
                /\ store'.eh_time = store.eh_time /\ storeQ' = storeQ]_vars
\* The tracked tab went from a.com to b.org: the two minutes of the segment
\* were written under a.com and a segment runs on the same tab under b.org;
\* and an update without a URL has been delivered.
C30_Witness ==
    /\ hist.lastWrite.domain = domainOf(UrlA) /\ hist.lastWrite.ms = 120000
    /\ store.eh_time # EmptyLedger
    /\ Quiet
    /\ activeTabId = 1 /\ tabUrl[1] = UrlB /\ activeDomain = domainOf(UrlB)
    /\ segmentStart = now
    /\ hist.updates > 0

\* A step of the segment tracker's onRemoved listener for `tab`: its first,
\* when the closing is delivered, and its last, when addTime's write has been
\* answered.
RemovedFirst(tab) == tabUrl[tab] # NoUrl /\ tabUrl'[tab] = NoUrl
RemovedLast ==
    /\ storeQ # <<>> /\ Head(storeQ).k.fn = "addTimeSet" /\ storeQ' = Tail(storeQ)
    /\ Head(storeQ).k.after = "removed"
    /\ Head(storeQ).k.alive /\ budget' = budget
\* What the listener leaves once commitSegment has returned.
RemovedEnds ==
    /\ activeTabId' = 0 /\ activeDomain' = NoDomain
    /\ ~segmentRunning(Tracker(activeTabId', activeDomain', segmentStart',
                               windowFocused'))

\* C31: closing the tracked tab hands the running segment's time, within the
\* guards, to addTime under the segment's domain and clears the start marker,
\* and once commitSegment has returned active tab and domain are empty and no
\* segment is running; closing any other tab changes none of activeTabId,
\* activeDomain, segmentStart, windowFocused and the ledger, and queues no
\* write of it.
C31_ClosingTrackedTabCommitsAndClears ==
    [][/\ RemovedLast => RemovedEnds
       /\ \A tab \in Tabs :
          RemovedFirst(tab) =>
             IF tab = activeTabId
             THEN LET amt == commitAmount(Cur, now) IN
                  /\ Handed(hist', storeQ') - Handed(hist, storeQ) = amt
                  /\ segmentStart' = 0
                  /\ IF amt > 0 /\ activeDomain # NoDomain
                     THEN /\ storeQ' # <<>>
                          /\ storeQ'[Len(storeQ')].k.domain = activeDomain
                          /\ storeQ'[Len(storeQ')].k.ms = amt
                          /\ storeQ'[Len(storeQ')].k.fn = "addTime"
                     ELSE storeQ' = storeQ /\ RemovedEnds
             ELSE /\ UNCHANGED trackerVars
                  /\ store'.eh_time = store.eh_time /\ storeQ' = storeQ]_vars
\* The tracked tab was closed while its segment had run two minutes: they
\* were written under a.com and the tracker is idle with nothing in flight.
C31_Witness ==
    /\ tabUrl[1] = NoUrl
    /\ hist.lastWrite.domain = domainOf(UrlA) /\ hist.lastWrite.ms = 120000
    /\ hist.lastWrite.at = hist.lastCommit.at
    /\ Quiet
    /\ activeTabId = 0 /\ activeDomain = NoDomain /\ segmentStart = 0

\* The last step of a tick that found a segment running: addTime's write has
\* been answered and `segmentStart = Date.now()` runs.
TickLast ==
    /\ storeQ # <<>> /\ Head(storeQ).k.fn = "addTimeSet" /\ storeQ' = Tail(storeQ)
    /\ Head(storeQ).k.after = "tick"
    /\ Head(storeQ).k.alive /\ budget' = budget

\* C32: a tick that found a segment running with the window focused and
\* handed its elapsed time to addTime leaves, when it completes, a segment
\* running on the same tab and domain whose start is the commit instant, so
\* that the next segment begins where the committed one ended.
C32_TickRestartsAtCommitInstant ==
    [][TickLast
          => /\ activeTabId' # 0
             /\ activeDomain' = Head(storeQ).k.domain
             /\ windowFocused'
             /\ segmentStart' = Head(storeQ).k.at]_vars

\* C33: in every reachable state the tracker is idle or well-formed: the
\* start marker is set only if active tab and active domain are set and the
\* window is focused.
C33_TrackerIdleOrWellFormed ==
    segmentStart # 0
       => (activeTabId # 0 /\ activeDomain # NoDomain /\ windowFocused)

\* The tab the last tab-activated or focus-gained event named: the tab
\* activated, or the active tab of the window that got the focus.
NamedTab ==
    IF hist.named.kind = "tab" THEN hist.named.id
    ELSE IF hist.named.kind = "window" THEN activeOf[hist.named.id]
    ELSE 0

\* C34: once all handlers have run to completion, the tracker's active tab
\* and domain are those of the tab that the most recent tab-activated or
\* focus-gained event named, when that tab shows a trackable URL.
C34_TrackerFollowsLastEvent ==
    (Quiet /\ NamedTab # 0 /\ isTrackable(tabUrl[NamedTab]))
        => /\ activeTabId = NamedTab
           /\ activeDomain = domainOf(tabUrl[NamedTab])

\* The steps of beginSession after its first: chrome.tabs.query({}) answers,
\* and the set of saveSessionState lands; and that no event has been delivered
\* since the call began.
BeginAnswered ==
    /\ envWait # <<>> /\ Head(envWait).q = "tabs.queryAll"
    /\ envWait' = Tail(envWait) /\ storeQ' # storeQ
    /\ Head(envWait).k.ev = budget.ev /\ budget' = budget
BeginCompletes ==
    /\ storeQ # <<>> /\ Head(storeQ).k.fn = "saveSessionState"
    /\ Head(storeQ).k.after \in {"onStartup", "onInstalled"}
    /\ Head(storeQ).k.alive /\ storeQ' = Tail(storeQ)
    /\ Head(storeQ).k.ev = budget.ev /\ budget' = budget
OpenTrackable == {t \in Tabs : tabUrl[t] # NoUrl /\ tabUrl[t].scheme \notin UNTRACKABLE}
\* The session state beginSession leaves, but for the records' opened times.
BegunState ==
    /\ sessionId' # 0 /\ sessionStart' # 0
    /\ DOMAIN sessionTabs' = OpenTrackable
    /\ \A t \in OpenTrackable :
          /\ sessionTabs'[t].url = tabUrl[t]
          /\ sessionTabs'[t].domain = domainOf(tabUrl[t])
          /\ sessionTabs'[t].closed = 0
    /\ store'.eh_cur_session = [present |-> TRUE, sessionId |-> sessionId',
                                sessionStart |-> sessionStart',
                                sessionTabs |-> sessionTabs']

\* C35, as the specification states it: after a beginSession that ran with no
\* other event delivered, sessionId and sessionStart are set, sessionTabs holds
\* exactly one record per open trackable tab, each with opened = the begin time
\* (sessionStart) and closed = null, and the snapshot in the store equals that
\* state.
C35_Original ==
    [][BeginCompletes
          => /\ BegunState
             /\ \A t \in OpenTrackable : sessionTabs'[t].opened = sessionStart']_vars
\* C35, as the code has it: the records' opened time is the instant at which
\* chrome.tabs.query answered, which is the begin time or later.
C35_BeginSessionRecordsOpenTabs ==
    [][/\ BeginAnswered
          => /\ DOMAIN sessionTabs' = OpenTrackable
             /\ \A t \in OpenTrackable : sessionTabs'[t].opened = now
       /\ BeginCompletes
          => /\ BegunState
             /\ \A t \in OpenTrackable :
                   /\ sessionTabs'[t].opened >= sessionStart'
                   /\ sessionTabs'[t].opened <= now]_vars
\* A beginSession has completed whose query was answered after the clock had
\* moved: two records, opened later than the session's start, in memory and
\* in the snapshot.
C35_Witness ==
    /\ Quiet /\ boot = {}
    /\ sessionId # 0 /\ sessionId # 6000
    /\ DOMAIN sessionTabs = {1, 2}
    /\ \A t \in DOMAIN sessionTabs : sessionTabs[t].opened > sessionStart
    /\ store.eh_cur_session.present
    /\ store.eh_cur_session.sessionTabs = sessionTabs

\* A tab event as the browser shows it: `tab` goes to another URL, opens, or
\* is closed.
Navigates(tab) ==
    tabUrl[tab] # NoUrl /\ tabUrl'[tab] # NoUrl /\ tabUrl'[tab] # tabUrl[tab]
Closes(tab) == tabUrl[tab] # NoUrl /\ tabUrl'[tab] = NoUrl

\* C36: while a session is tracked in memory, the navigation of a tab to a
\* trackable URL leaves the tab with a record of the new URL and its domain;
\* the record keeps the opened time it had when the tab had a record already,
\* however many navigations came before, and takes the time of the event when
\* it had none; the records of the other tabs, sessionId and sessionStart are
\* unchanged, and a navigation to an untrackable URL changes no record.
C36_NavigationKeepsOpened ==
    [][\A tab \in Tabs :
          (Navigates(tab) /\ sessionId # 0) =>
             /\ sessionId' = sessionId /\ sessionStart' = sessionStart
             /\ IF tabUrl'[tab].scheme \in UNTRACKABLE
                THEN sessionTabs' = sessionTabs
                ELSE /\ DOMAIN sessionTabs' = DOMAIN sessionTabs \cup {tab}
                     /\ \A t \in DOMAIN sessionTabs \ {tab} :
                           sessionTabs'[t] = sessionTabs[t]
                     /\ sessionTabs'[tab].url = tabUrl'[tab]
                     /\ sessionTabs'[tab].domain = domainOf(tabUrl'[tab])
                     /\ sessionTabs'[tab].closed = 0
                     /\ sessionTabs'[tab].opened =
                           IF tab \in DOMAIN sessionTabs
                           THEN sessionTabs[tab].opened ELSE now]_vars
\* Tab 1 was recorded when the session began and has navigated since, after
\* the clock had moved: its record shows the new URL and the opened time of
\* the beginning; tab 3, which had no record, got one at its navigation.
C36_Witness ==
    /\ Quiet /\ boot = {} /\ sessionId # 0
    /\ 1 \in DOMAIN sessionTabs /\ 3 \in DOMAIN sessionTabs
    /\ sessionTabs[1].url = UrlB /\ sessionTabs[1].opened = sessionStart
    /\ sessionStart < now
    /\ sessionTabs[3].url = UrlB /\ sessionTabs[3].opened = now

\* The store answers the call at the head of its queue and the handler makes
\* its next call to the store in the same step.
Replaced ==
    /\ Len(storeQ') = Len(storeQ) /\ budget' = budget
    /\ \A i \in 1..(Len(storeQ) - 1) : storeQ'[i].k.fn = storeQ[i + 1].k.fn
    /\ storeQ'[Len(storeQ')].k.fn # Head(storeQ).k.fn
\* finishSession clears the memory in this step: saveSessions has returned to
\* a handler that is still there.
FinishClears ==
    HeadIs("saveSessions") /\ Head(storeQ).k.alive /\ Replaced

\* C37: when a tab that has a record in sessionTabs is closed, the record gets
\* closed = the instant of the close, which is not before its opened time, the
\* records of the other tabs are unchanged and the snapshot of the new state
\* is on its way to the store; and no step but the one in which finishSession
\* clears the memory takes a record out of sessionTabs.
C37_ClosedRecordIsKept ==
    [][/\ \A tab \in Tabs :
             (Closes(tab) /\ tab \in DOMAIN sessionTabs) =>
                /\ sessionTabs' = [sessionTabs EXCEPT ![tab].closed = now]
                /\ sessionTabs'[tab].closed >= sessionTabs'[tab].opened
                /\ sessionId' = sessionId /\ sessionStart' = sessionStart
                /\ storeQ' = storeQ \o saveSessionState(sessionId', sessionStart',
                                                        sessionTabs',
                                                        Cont("", "onRemoved", tab, NoUrl))
       /\ \A t \in DOMAIN sessionTabs : t \in DOMAIN sessionTabs' \/ FinishClears]_vars

\* The steps of a finishSession that has a session: getSessions answers and
\* the entry is built; getMaxSessions answers and the list is cut; saveSessions'
\* set lands and the memory is cleared; clearSessionState's remove lands.
FinishBuilds == HeadIs("getSessions") /\ Head(storeQ).k.alive /\ Replaced
FinishCuts == HeadIs("getMaxSessions") /\ Head(storeQ).k.alive /\ Replaced
FinishRemoves ==
    HeadIs("clearSessionState") /\ Len(storeQ') = Len(storeQ) - 1 /\ budget' = budget
\* The list finishSession hands to saveSessions, and the one saveSessions sets.
HandedList == storeQ'[Len(storeQ')].k.list
SetList == storeQ'[Len(storeQ')].val
\* The tabs with a record that has a URL.
Recorded == {t \in DOMAIN sessionTabs : sessionTabs[t].url # NoUrl}
\* The handed list is the archive as read and one entry of the session.
AppendsOne ==
    /\ Len(HandedList) = Len(store.eh_sessions) + 1
    /\ SubSeq(HandedList, 1, Len(store.eh_sessions)) = store.eh_sessions
    /\ LET e == HandedList[Len(HandedList)] IN
          /\ e.id = sessionId /\ e.start = sessionStart /\ e.end = now
          /\ e.tabCount = Cardinality({sessionTabs[t].url : t \in Recorded})
          /\ Len(e.tabs) = Cardinality(Recorded)
          /\ {e.tabs[i] : i \in 1..Len(e.tabs)} = {sessionTabs[t] : t \in Recorded}
\* What finishSession does after the entry: the set is the last `max` entries
\* of the list, what lands is what was set, the memory is cleared with it, and
\* the snapshot is removed.
FinishStoresAndClears ==
    /\ FinishCuts =>
          /\ storeQ'[Len(storeQ')].key = "eh_sessions"
          /\ SetList = lastN(Head(storeQ).k.list, maxSessionsOf(store))
    /\ FinishClears =>
          /\ store'.eh_sessions = Head(storeQ).val
          /\ sessionId' = 0 /\ sessionStart' = 0 /\ sessionTabs' = <<>>
    /\ FinishRemoves => ~store'.eh_cur_session.present

\* C38 as stated: finishSession with a session present appends exactly one
\* entry of the session to the archive, then clears memory and snapshot.
C38_Original ==
    [][(FinishBuilds => AppendsOne) /\ FinishStoresAndClears]_vars
\* C38: finishSession with a session present hands saveSessions the archive
\* it read and, when at least one record has a URL, exactly one more entry:
\* all such records as its tabs, the number of their distinct URLs as
\* tabCount, sessionStart as start and the instant getSessions answered as
\* end; when no record has a URL it hands over the archive as read.  The last
\* `max` entries of the list are stored, then the memory is cleared, then the
\* snapshot is removed.
C38_FinishArchivesSession ==
    [][/\ FinishBuilds => IF Recorded # {} THEN AppendsOne
                          ELSE HandedList = store.eh_sessions
       /\ FinishStoresAndClears]_vars
\* A session whose two records showed the same URL has been archived as one
\* entry with two tabs and tabCount 1, ending after it started; the memory is
\* cleared and the snapshot is gone.
C38_Witness ==
    /\ Len(store.eh_sessions) = 1
    /\ Len(store.eh_sessions[1].tabs) = 2 /\ store.eh_sessions[1].tabCount = 1
    /\ store.eh_sessions[1].end > store.eh_sessions[1].start
    /\ sessionTabs = <<>> /\ ~store.eh_cur_session.present

\* loadSessionState answers finishSession, which returns or goes on.
LoadAnswers ==
    /\ HeadIs("loadSessionState") /\ Head(storeQ).k.alive /\ budget' = budget
    /\ Len(storeQ') = Len(storeQ) - 1 \/ Replaced

\* C39: a finishSession called while the memory holds no session and the
\* store no snapshot is a no-op: when loadSessionState has answered it returns
\* without another call to the store, the store (archive and snapshot key) is
\* as it was, and the handler goes on from a memory without tab records.
C39_FinishWithoutSessionIsNoOp ==
    [][(LoadAnswers /\ Head(storeQ).k.bare) =>
          /\ Len(storeQ') = Len(storeQ) - 1
          /\ store' = store
          /\ sessionTabs' = <<>>]_vars

\* ── Startup in any order ───────────────────────────────────────────────────
\* A fresh worker runs resumeActiveTab and the session startup sequence
\* (finishSession, then beginSession) as two calls made in either order and at
\* any distance: each may start before, between or after the awaits of the
\* other.  No event is delivered; the store holds the previous session's
\* snapshot or none, and an empty or a full archive.
MaxStartupAdvances == 1
StartupCalls == {"resumeActiveTab", "finishSession"}
StartupSnapshots ==
    {NoSnapshot,
     snapshotOf(6000, 6000, (1 :> TabRecord(UrlWwwA, 6000, 0)
                             @@ 2 :> TabRecord(UrlWwwA, 6000, 7000)))}
StartupArchives ==
    {<<>>, [i \in 1..MAX_SESSIONS_DEFAULT |-> ArchivedEntry(ArchivedIds[i])]}

StartupInit ==
    /\ now = StartClock
    /\ budget = [adv |-> MaxStartupAdvances, ev |-> 0]
    /\ tabUrl = (1 :> UrlWwwA @@ 2 :> UrlB @@ 3 :> UrlChrome)
    /\ activeOf \in {(1 :> 1 @@ 2 :> 3), (1 :> 2 @@ 2 :> 3)}
    /\ focusedWin \in Windows \cup {WINDOW_ID_NONE}
    /\ boot = StartupCalls
    /\ InitMemory
    /\ store \in {[InitStore EXCEPT !.eh_sessions = a, !.eh_cur_session = snap,
                                    !.eh_migration_done = TRUE] :
                     a \in StartupArchives, snap \in StartupSnapshots}
    /\ storeQ = <<>>
    /\ envWait = <<>>
    /\ hist = [InitHist EXCEPT !.from = store]

\* resumeActiveTab(), up to `await chrome.windows.getAll(...)`.
ResumeActiveTabCall ==
    /\ "resumeActiveTab" \in boot
    /\ boot' = boot \ {"resumeActiveTab"}
    /\ envWait' = Append(envWait, Query("windows.getAll", 0,
                                        Cont("resumeActiveTab", "", 0, NoUrl)))
    /\ UNCHANGED <<now, budget, tabUrl, activeOf, focusedWin, trackerVars,
                   sessionVars, store, storeQ, hist>>

\* `await finishSession(); await beginSession()`, up to finishSession's first
\* await.
SessionStartupCall ==
    /\ "finishSession" \in boot
    /\ boot' = boot \ {"finishSession"}
    /\ storeQ' = Append(storeQ, finishSessionCall(Cont("finishSession", "startup", 0, NoUrl)))
    /\ UNCHANGED <<now, budget, tabUrl, activeOf, focusedWin, trackerVars,
                   sessionVars, store, envWait, hist>>

StartupNext ==
    \/ ResumeActiveTabCall
    \/ SessionStartupCall
    \/ LoadSessionStateGet
    \/ GetSessionsGet
    \/ GetMaxSessionsGet
    \/ SaveSessionsSet
    \/ ClearSessionStateRemove
    \/ TabsQueryAllAnswer
    \/ SaveSessionStateSet
    \/ WindowsGetAllAnswer
    \/ TabsQueryAnswer
    \/ Overtake
    \/ \E d \in Deltas : Advance(d)

StartupSpec == StartupInit /\ [][StartupNext]_vars

\* Both calls have been made and have run to their ends.
StartupDone == boot = {} /\ Quiet
\* The tab resumeActiveTab finds, and the previous session's records.
ResumedTab == IF focusedWin = WINDOW_ID_NONE THEN 0 ELSE activeOf[focusedWin]
Previous == hist.from.eh_cur_session
PreviousRecords == {Previous.sessionTabs[t] : t \in DOMAIN Previous.sessionTabs}

\* C40: whatever the order in which resumeActiveTab and the session startup
\* sequence are called, and however their awaits interleave, the state they
\* leave is the one the store and the browser they started from determine:
\* the tracker is on the focused window's active tab when that tab is
\* trackable and idle otherwise, windowFocused tells whether a window has the
\* focus, the session has one open record for each open trackable tab, the
\* archive is the one found plus one entry of the previous session when the
\* store held its snapshot (cut to the last MAX_SESSIONS_DEFAULT entries), and
\* the snapshot is the session in memory.  The instants written (segmentStart,
\* sessionId, sessionStart, opened, end) lie between the start and the end of
\* the run, so with the clock at rest the final state is one and the same.
C40_StartupOrderInsensitive ==
    StartupDone =>
       /\ windowFocused = (focusedWin # WINDOW_ID_NONE)
       /\ IF ResumedTab # 0 /\ tabUrl[ResumedTab].scheme \notin UNTRACKABLE
          THEN /\ activeTabId = ResumedTab
               /\ activeDomain = domainOf(tabUrl[ResumedTab])
               /\ segmentStart \in StartClock..now
          ELSE activeTabId = 0 /\ activeDomain = NoDomain /\ segmentStart = 0
       /\ sessionId \in StartClock..now /\ sessionStart = sessionId
       /\ DOMAIN sessionTabs = OpenTrackable
       /\ \A t \in OpenTrackable :
             /\ sessionTabs[t].url = tabUrl[t]
             /\ sessionTabs[t].domain = domainOf(tabUrl[t])
             /\ sessionTabs[t].closed = 0
             /\ sessionTabs[t].opened \in sessionStart..now
       /\ IF Previous.present
          THEN LET n == Len(store.eh_sessions)
                   e == store.eh_sessions[n]
                   old == hist.from.eh_sessions
               IN /\ n = IF Len(old) < MAX_SESSIONS_DEFAULT THEN Len(old) + 1
                         ELSE MAX_SESSIONS_DEFAULT
                  /\ \A i \in 1..(n - 1) :
                        store.eh_sessions[i] = old[Len(old) - (n - 1) + i]
                  /\ e.id = Previous.sessionId /\ e.start = Previous.sessionStart
                  /\ e.end \in StartClock..now
                  /\ e.tabCount = Cardinality({r.url : r \in PreviousRecords})
                  /\ {e.tabs[i] : i \in 1..Len(e.tabs)} = PreviousRecords
                  /\ Len(e.tabs) = Cardinality(DOMAIN Previous.sessionTabs)
          ELSE store.eh_sessions = hist.from.eh_sessions
       /\ store.eh_cur_session.present
       /\ store.eh_cur_session.sessionId = sessionId
       /\ store.eh_cur_session.sessionStart = sessionStart
       /\ store.eh_cur_session.sessionTabs = sessionTabs
\* Called in the order the listener does not use: resumeActiveTab had started
\* its segment on tab 1 before beginSession began the session; the previous
\* session is the last of a full archive and the new one is in the snapshot.
C40_Witness ==
    /\ StartupDone
    /\ activeTabId = 1 /\ segmentStart # 0 /\ segmentStart < sessionStart
    /\ Len(store.eh_sessions) = MAX_SESSIONS_DEFAULT
    /\ store.eh_sessions[MAX_SESSIONS_DEFAULT].id = 6000
    /\ store.eh_cur_session.sessionId = sessionId

\* The trailing `days` calendar days that end with the day of the response,
\* and a domain's ledger values over them.
TrailingDays(r) == {todayKey(r.at) - i : i \in 0..(r.days - 1)}
RECURSIVE SumWindow(_, _, _)
SumWindow(map, domain, S) ==
    IF S = {} THEN 0
    ELSE LET day == CHOOSE x \in S : TRUE IN
         (IF <<domain, day>> \in DOMAIN map THEN map[<<domain, day>>] ELSE 0)
            + SumWindow(map, domain, S \ {day})
\* The same sum over the day buckets of the response.
RECURSIVE SumBuckets(_, _, _)
SumBuckets(daily, domain, S) ==
    IF S = {} THEN 0
    ELSE LET day == CHOOSE x \in S : TRUE IN
         (IF domain \in DOMAIN daily[day] THEN daily[day][domain] ELSE 0)
            + SumBuckets(daily, domain, S \ {day})
Listed(r) == {r.topSites[i].domain : i \in 1..Len(r.topSites)}
\* The day buckets are those of the trailing days, and for every domain of the
\* ledger they sum to the domain's total over the trailing days.
BucketsMatch(r) ==
    /\ DOMAIN r.dailyMap \subseteq TrailingDays(r)
    /\ \A d \in domainsOf(r.ledger) :
          SumBuckets(r.dailyMap, d, DOMAIN r.dailyMap) = SumWindow(r.ledger, d, TrailingDays(r))

\* C25, as the specification states it: GET_TIME_DATA(days) returns, for each
\* domain of the ledger with time in the trailing `days` calendar days, the
\* sum of its ledger values over those days, and day buckets that sum to the
\* same totals.
C25_Original ==
    LET r == hist.timeData IN
    r.done =>
       /\ \A d \in domainsOf(r.ledger) :
             SumWindow(r.ledger, d, TrailingDays(r)) > 0
                => \E i \in 1..Len(r.topSites) :
                      /\ r.topSites[i].domain = d
                      /\ r.topSites[i].ms = SumWindow(r.ledger, d, TrailingDays(r))
       /\ BucketsMatch(r)
\* C25, as the code has it: the totals returned are those of the 20 domains
\* with the largest sums over the trailing `days` calendar days (of all domains
\* with time in those days when they are 20 or fewer), largest first, each the sum
\* of the domain's ledger values over exactly those days; the day buckets
\* cover every domain and sum, per domain, to its total over those days;
\* entries of other days contribute to neither.
C25_TopTotalsOverTrailingDays ==
    LET r == hist.timeData
        total(d) == SumWindow(r.ledger, d, TrailingDays(r))
        positive == {d \in domainsOf(r.ledger) : total(d) > 0}
    IN r.done =>
         /\ Len(r.topSites) = Min(TOP_SITES, Cardinality(positive))
         /\ Cardinality(Listed(r)) = Len(r.topSites)
         /\ \A i \in 1..Len(r.topSites) :
               /\ r.topSites[i].domain \in positive
               /\ r.topSites[i].ms = total(r.topSites[i].domain)
               /\ i > 1 => r.topSites[i - 1].ms >= r.topSites[i].ms
         /\ \A d \in positive \ Listed(r) :
               \A i \in 1..Len(r.topSites) : total(d) <= r.topSites[i].ms
         /\ BucketsMatch(r)
\* A response over a window of two days for a ledger that has entries of
\* older days too: the totals leave those out.
C25_Witness ==
    LET r == hist.timeData IN
    /\ r.done /\ r.days = 2
    /\ \E p \in DOMAIN r.ledger : p[2] \notin TrailingDays(r)
    /\ \E i \in 1..Len(r.topSites) :
          /\ r.topSites[i].ms = 5000
          /\ ledgerTotal(r.ledger, r.topSites[i].domain) = 10000
====
